---- MODULE Spec2Model ----
(***************************************************************************)
(* Model of the conversation core of mcp-web-ui: the HandleChats request   *)
(* handler, the continuation policy (continueChat), the Engine task        *)
(* (Main.chat), tool dispatch (callTool, callToolError), the title         *)
(* generator and the Bolt message store they share.                        *)
(*                                                                         *)
(* Representation.  A Go string id "<seq>-<candidate>" is the record       *)
(* [seq, cand]; the empty string is NoID.  A json.RawMessage that the      *)
(* provider supplies (ToolInput) is the raw text; a json.RawMessage that   *)
(* json.Marshal produced (ToolResult) is the JSON document it encodes.     *)
(* Each task keeps a log of the calls it made to its collaborators (store, *)
(* broker, provider, tool server), in program order.                       *)
(***************************************************************************)
EXTENDS Integers, Sequences, FiniteSets, TLC

\* Deltas the Engine tasks consume, all tasks and streams together.
MaxDeltas == 1
\* Failures of the store, the renderer, the broker and the title provider in
\* one run.
MaxFaults == 1
\* Provider streams one Engine task opens.
MaxRounds == 2
\* Records a direct client of the store adds, chats and messages together.
MaxInserts == 11
\* Upstream events an adapter's Chat receives in one stream.
MaxEvents == 4
\* Items the consumer of a stream takes before its loop body stops.
MaxPatience == 2
\* Chats the direct client adds.
MaxChats == 2
\* messages in a history handed to an adapter, contents in one of them
MaxHistory == 2
MaxContents == 3
\* UpdateChat and UpdateMessage of the direct client name ids with a sequence
\* prefix up to this.
MaxEdited == 2
\* Deltas the Engine task of a lone request consumes.
MaxTurnDeltas == 3
\* Deltas the Engine tasks consume while a browser is connected.
MaxLiveDeltas == 0
\* Deltas the one scheduled Engine task of two requests consumes.
MaxPairDeltas == 2

\* The concurrent POST requests; each owns a handler, an Engine task and a
\* title task.
Requests == {"r1", "r2"}

Last(s) == s[Len(s)]

(***************************************************************************)
(* Ids and JSON values                                                     *)
(***************************************************************************)
NoID == [seq |-> 0, cand |-> ""]
\* a chat_id form value that names no stored chat
UnknownChatID == [seq |-> 0, cand |-> "missing"]

\* fmt.Sprintf("%d-%s", idPrefix, id): the candidate id under a sequence prefix
FormatID(idPrefix, id) == [seq |-> idPrefix, cand |-> id.cand]

\* uuid.New().String(): one fresh candidate id per use (no prefix yet)
NewUUID(kind, r) == [seq |-> 0, cand |-> kind \o "-" \o r]

RECURSIVE Digits(_)
\* the bytes of the decimal rendering of n ("%d")
Digits(n) == IF n < 10 THEN <<48 + n>> ELSE Digits(n \div 10) \o <<48 + (n % 10)>>

\* the bytes of a key up to and including the '-' separator
KeyBytes(id) == Digits(id.seq) \o <<45>>

RECURSIVE LexLess(_, _)
\* bytes.Compare(a, b) < 0, the order Bolt keeps its keys in
LexLess(a, b) ==
    IF b = <<>> THEN FALSE
    ELSE IF a = <<>> THEN TRUE
    ELSE IF Head(a) # Head(b) THEN Head(a) < Head(b)
    ELSE LexLess(Tail(a), Tail(b))

KeyLess(a, b) == LexLess(KeyBytes(a), KeyBytes(b))

\* A JSON document: null, an array of mcp text contents, or an object with
\* the single member "error".
JNull == [kind |-> "null", items |-> <<>>, error |-> ""]
JArray(items) == [kind |-> "array", items |-> items, error |-> ""]
JErrorObject(text) == [kind |-> "object", items |-> <<>>, error |-> text]
McpText(text) == [type |-> "text", text |-> text]

\* Raw JSON texts: the nil message, the empty object, and which of the raw
\* tool inputs in use are JSON texts ("null" is what Ollama.Chat yields for a
\* call without arguments).
NilRaw == ""
EmptyObjectRaw == "{}"
ValidJSONTexts == {"{}", "{\"tz\":\"UTC\"}", "null"}

\* json.Marshal(json.RawMessage): a nil message encodes as null, any other
\* must be a valid JSON text.
RawMarshalOK(raw) == raw = NilRaw \/ raw \in ValidJSONTexts

(***************************************************************************)
(* Content model                                                           *)
(***************************************************************************)
RoleUser == "user"
RoleAssistant == "assistant"
ContentTypeText == "text"
ContentTypeCallTool == "call_tool"
ContentTypeToolResult == "tool_result"

TextContent(text) ==
    [Type |-> ContentTypeText, Text |-> text, ToolName |-> "",
     ToolInput |-> NilRaw, ToolResult |-> JNull, CallToolID |-> "",
     CallToolFailed |-> FALSE]

CallToolContent(id, name, input) ==
    [Type |-> ContentTypeCallTool, Text |-> "", ToolName |-> name,
     ToolInput |-> input, ToolResult |-> JNull, CallToolID |-> id,
     CallToolFailed |-> FALSE]

\* models.Content{Type: ContentTypeToolResult, CallToolID: id}
EmptyToolResult(id) ==
    [Type |-> ContentTypeToolResult, Text |-> "", ToolName |-> "",
     ToolInput |-> NilRaw, ToolResult |-> JNull, CallToolID |-> id,
     CallToolFailed |-> FALSE]

NewMessage(id, role, contents) == [ID |-> id, Role |-> role, Contents |-> contents]
NoMessage == NewMessage(NoID, "", <<>>)

\* json.Marshal(message) in the store: fails on a raw message that is no JSON
MessageMarshalOK(m) ==
    \A i \in 1..Len(m.Contents) : RawMarshalOK(m.Contents[i].ToolInput)

\* The Markdown source RenderContents assembles, one segment per content;
\* an empty Text writes nothing.
TextSegment(c) == [seg |-> "text", text |-> c.Text, name |-> "", input |-> NilRaw, result |-> JNull]
CallSegment(c) == [seg |-> "details_open", text |-> "", name |-> c.ToolName, input |-> c.ToolInput, result |-> JNull]
ResultSegment(c) == [seg |-> "details_close", text |-> "", name |-> "", input |-> NilRaw, result |-> c.ToolResult]

RECURSIVE MarkdownSource(_)
MarkdownSource(contents) ==
    IF contents = <<>> THEN <<>>
    ELSE LET c == Head(contents)
             rest == MarkdownSource(Tail(contents))
         IN  IF c.Type = ContentTypeText
             THEN (IF c.Text = "" THEN rest ELSE <<TextSegment(c)>> \o rest)
             ELSE IF c.Type = ContentTypeCallTool THEN <<CallSegment(c)>> \o rest
             ELSE IF c.Type = ContentTypeToolResult THEN <<ResultSegment(c)>> \o rest
             ELSE rest

\* Event data: converted HTML, a plain text, or the chat-list fragment.
HTMLData(md) == [kind |-> "html", md |-> md, text |-> "", chats |-> <<>>]
PlainData(text) == [kind |-> "plain", md |-> <<>>, text |-> text, chats |-> <<>>]
ChatsData(divs) == [kind |-> "divs", md |-> <<>>, text |-> "", chats |-> divs]

\* RenderContents: the Markdown source converted to HTML
RenderContents(contents) == HTMLData(MarkdownSource(contents))

(***************************************************************************)
(* Broker topics and events                                                *)
(***************************************************************************)
DefaultTopic == [name |-> "default", id |-> NoID]
chatsSSETopic == [name |-> "chats", id |-> NoID]
messageIDTopic(messageID) == [name |-> "message", id |-> messageID]

Event(type, topic, data) == [type |-> type, topic |-> topic, data |-> data]
NoEvent == Event("", DefaultTopic, PlainData(""))

(***************************************************************************)
(* Call log entries                                                        *)
(***************************************************************************)
Entry(op, chat, msg, event, history, tool, input, res, ok) ==
    [op |-> op, chat |-> chat, msg |-> msg, event |-> event,
     history |-> history, tool |-> tool, input |-> input, res |-> res, ok |-> ok]

\* a store operation on a chat, with the message written and whether it succeeded
StoreCall(op, chat, msg, ok) == Entry(op, chat, msg, NoEvent, <<>>, "", NilRaw, JNull, ok)
\* sseSrv.Publish
PublishCall(event, ok) == Entry("Publish", NoID, NoMessage, event, <<>>, "", NilRaw, JNull, ok)
\* llm.Chat on a history
ChatCall(history) == Entry("Chat", NoID, NoMessage, NoEvent, history, "", NilRaw, JNull, TRUE)
\* the provider's iterator handed a content to the loop body
YieldEntry(content) ==
    Entry("Yield", NoID, NewMessage(NoID, "", <<content>>), NoEvent, <<>>, "", NilRaw, JNull, TRUE)
\* mcpClients[i].CallTool: a tool server is contacted
ServerCall(tool, input) == Entry("ServerCallTool", NoID, NoMessage, NoEvent, <<>>, tool, input, JNull, TRUE)
\* Main.callTool returned a payload and a success flag
CallToolReturn(tool, input, res, success) ==
    Entry("callTool", NoID, NoMessage, NoEvent, <<>>, tool, input, res, success)

(***************************************************************************)
(* Message store (BoltDB)                                                  *)
(***************************************************************************)
\* b.Put(key, v): one record per key
Put(recs, key, v) == {x \in recs : x.ID # key} \cup {v}

RECURSIVE SortByKey(_)
\* b.ForEach: the records of a bucket in key order
SortByKey(recs) ==
    IF recs = {} THEN <<>>
    ELSE LET first == CHOOSE m \in recs : \A o \in recs : ~KeyLess(o.ID, m.ID)
         IN  <<first>> \o SortByKey(recs \ {first})

RECURSIVE Reverse(_)
Reverse(s) == IF s = <<>> THEN <<>> ELSE Reverse(Tail(s)) \o <<Head(s)>>

EmptyBucket == [seq |-> 0, recs |-> {}]

\* BoltDB.Messages: nothing when the chat has no bucket
StoreMessages(bk, chatID) ==
    IF chatID \notin DOMAIN bk THEN <<>> ELSE SortByKey(bk[chatID].recs)

\* BoltDB.AddMessage: the new bucket map and the id returned
StoreAddMessage(bk, chatID, message) ==
    IF chatID \notin DOMAIN bk THEN [buckets |-> bk, id |-> NoID]
    ELSE LET idPrefix == bk[chatID].seq + 1
             newID == FormatID(idPrefix, message.ID)
         IN  [buckets |-> [bk EXCEPT ![chatID] =
                              [seq |-> idPrefix,
                               recs |-> Put(@.recs, newID, [message EXCEPT !.ID = newID])]],
              id |-> newID]

\* BoltDB.UpdateMessage: puts the record under message.ID
StoreUpdateMessage(bk, chatID, message) ==
    IF chatID \notin DOMAIN bk THEN bk
    ELSE [bk EXCEPT ![chatID].recs = Put(@, message.ID, message)]

\* BoltDB.Chats: reverse key order
StoreChats(ch) == Reverse(SortByKey(ch.recs))

\* a variant that stores the chat record and creates no message bucket
StoreAddChat_NoBucket(ch, bk, chat) ==
    LET idPrefix == ch.seq + 1
        newID == FormatID(idPrefix, chat.ID)
    IN  [chats |-> [seq |-> idPrefix, recs |-> Put(ch.recs, newID, [chat EXCEPT !.ID = newID])],
         buckets |-> bk,
         id |-> newID]

\* BoltDB.AddChat: the chat record and its message bucket in one transaction
StoreAddChat(ch, bk, chat) ==
    LET idPrefix == ch.seq + 1
        newID == FormatID(idPrefix, chat.ID)
    IN  [chats |-> [seq |-> idPrefix, recs |-> Put(ch.recs, newID, [chat EXCEPT !.ID = newID])],
         buckets |-> IF newID \in DOMAIN bk THEN bk ELSE bk @@ (newID :> EmptyBucket),
         id |-> newID]

\* a variant that puts the record whether or not its id is known
StoreUpdateChat_Upsert(ch, chat) == [ch EXCEPT !.recs = Put(@, chat.ID, chat)]

\* BoltDB.UpdateChat: ignored when the id is unknown
StoreUpdateChat(ch, chat) ==
    IF \A c \in ch.recs : c.ID # chat.ID THEN ch
    ELSE [ch EXCEPT !.recs = Put(@, chat.ID, chat)]

(***************************************************************************)
(* Tool dispatch                                                           *)
(***************************************************************************)
\* m.toolsMap: the names in the tool directory
toolsMap == {"clock"}
\* what happens when the owning tool server is called
ToolOutcomes == {"transport_error", "marshal_error", "server_error", "success"}

\* callToolError: json.Marshal of a list holding one mcp text content
callToolError(errText) == JArray(<<McpText(errText)>>)

\* Main.callTool: the payload, the success flag, and whether a server was called
callTool(name, input, outcome) ==
    IF name \notin toolsMap
    THEN [res |-> callToolError("tool " \o name \o " is not found"),
          success |-> FALSE, called |-> FALSE]
    ELSE IF outcome = "transport_error"
    THEN [res |-> callToolError("tool call failed: " \o "connection closed"),
          success |-> FALSE, called |-> TRUE]
    ELSE IF outcome = "marshal_error"
    THEN [res |-> callToolError("failed to marshal content: " \o "unsupported value"),
          success |-> FALSE, called |-> TRUE]
    ELSE IF outcome = "server_error"
    THEN [res |-> JArray(<<McpText("unknown timezone")>>),
          success |-> FALSE, called |-> TRUE]
    ELSE [res |-> JArray(<<McpText("2025-01-01T00:00:00Z")>>),
          success |-> TRUE, called |-> TRUE]

\* a variant that leaves the call id of the ToolResult empty
ToolResultContent_NoCallID(callToolContent, toolRes, success) ==
    [EmptyToolResult("") EXCEPT !.ToolResult = toolRes, !.CallToolFailed = ~success]

\* the ToolResult content both continueChat and the Engine append
ToolResultContent(callToolContent, toolRes, success) ==
    [EmptyToolResult(callToolContent.CallToolID) EXCEPT
        !.ToolResult = toolRes, !.CallToolFailed = ~success]

\* the log entries of one callTool: the server call, if one is made, and the
\* return
ToolCalls(name, input, outcome) ==
    LET out == callTool(name, input, outcome)
    IN  (IF out.called THEN <<ServerCall(name, input)>> ELSE <<>>)
        \o <<CallToolReturn(name, input, out.res, out.success)>>

(***************************************************************************)
(* State                                                                   *)
(***************************************************************************)
VARIABLES
    chats,      \* the "chats" bucket: [seq, recs]
    buckets,    \* chat id -> the "chat-<id>" bucket: [seq, recs]
    req,        \* request -> the locals of its HandleChats run
    eng,        \* request -> the locals of the Engine task it spawned
    title,      \* request -> the title task it spawned
    hlog,       \* request -> calls made by the handler
    elog,       \* request -> calls made by the Engine task
    tlog,       \* request -> calls made by the title task
    adp,        \* a provider adapter's Chat iterator called directly: its locals,
                \* the upstream events it received, what it yielded
    wire,       \* an adapter's translation of a history called directly: the
                \* history, the adapter, the wire messages, the error
    broker,     \* the SSE server of Main seen by its clients: the sessions and
                \* what each was sent, the progress and result of Shutdown
    lastCall,   \* the last call a direct client of the store made, with its result
    budget,     \* deltas the providers deliver in this run, all streams together
    crashed,    \* a goroutine panicked: the process is gone
    faults      \* collaborator failures so far

vars == <<chats, buckets, req, eng, title, hlog, elog, tlog, adp, wire, broker, lastCall, budget, crashed, faults>>

\* the results a fallible call can have now
Oks == IF faults < MaxFaults THEN BOOLEAN ELSE {TRUE}
Fault(failed) == faults' = IF failed THEN faults + 1 ELSE faults
\* the results of sseSrv.Publish now: an sse.Server that was shut down
\* accepts no message and returns an error
PublishOks == IF broker.pc = "closed" THEN {FALSE} ELSE Oks

IdleRequest ==
    [pc |-> "idle", method |-> "", msg |-> "", chatID |-> NoID, isNewChat |-> FALSE,
     lastMessage |-> NoMessage, userMsgID |-> NoID, aiMsgID |-> NoID, status |-> 0,
     divs |-> <<>>, messages |-> <<>>, answer |-> <<>>]

IdleEngine ==
    [pc |-> "idle", chatID |-> NoID, messages |-> <<>>, aiMsg |-> NoMessage,
     contentIdx |-> -1, callTool |-> FALSE, badToolInputFlag |-> FALSE,
     badToolInput |-> EmptyObjectRaw, rounds |-> 0, deltas |-> 0, exit |-> ""]

\* the locals of an adapter's Chat before the request is sent; Anthropic.Chat
\* calls toolUse, toolArgs and callToolContent isToolUse, inputJSON and
\* toolContent
IdleAdapter ==
    [kind |-> "", pc |-> "idle", received |-> <<>>, out |-> <<>>,
     toolUse |-> FALSE, toolArgs |-> "",
     callToolContent |-> CallToolContent("", "", NilRaw),
     now |-> 0, patience |-> 0]

\* the browsers that may open an SSE connection
Clients == {"c1", "c2", "c3"}

\* a connection that was never opened
NoSession == [state |-> "none", topics |-> {}, events |-> <<>>]

\* the sse.Server of NewMain: no session yet, Shutdown not called
NewServer ==
    [pc |-> "serving", sessions |-> [c \in Clients |-> NoSession], result |-> "", waited |-> 0]

\* sseSrv.Publish(e, topics...): the event is sent to each open session that
\* has one of the topics; no topic given means the default topic
Deliver(sessions, e, topics) ==
    [c \in Clients |->
        IF sessions[c].state = "open" /\ sessions[c].topics \cap topics # {}
        THEN [sessions[c] EXCEPT !.events = Append(@, e)]
        ELSE sessions[c]]

RECURSIVE Broadcast(_, _, _)
\* The server after the Publish calls among the entries from+1.. of a task's
\* log that succeeded: each event is delivered on its topic.
Broadcast(b, log, from) ==
    IF from >= Len(log) THEN b
    ELSE LET x == log[from + 1]
         IN  Broadcast(IF x.op = "Publish" /\ x.ok
                       THEN [b EXCEPT !.sessions = Deliver(@, x.event, {x.event.topic})]
                       ELSE b,
                       log, from + 1)

\* no history translated yet
NoRequest == [kind |-> "", pc |-> "building", messages |-> <<>>, msgs |-> <<>>, err |-> ""]

NoChat == [ID |-> NoID, Title |-> ""]
\* a call of a Store method: its arguments, the id it returned, whether it
\* returned without an error
ClientCall(op, chatID, message, chat, id, ok) ==
    [op |-> op, chatID |-> chatID, message |-> message, chat |-> chat, id |-> id, ok |-> ok]
NoCall == ClientCall("", NoID, NoMessage, NoChat, NoID, TRUE)

IdleTitle == [pc |-> "idle", chatID |-> NoID, message |-> "", divs |-> <<>>]

\* NewBoltDB: the chats bucket exists and is empty
Boot(deltas) ==
    /\ chats = EmptyBucket
    /\ buckets = <<>>
    /\ req = [r \in Requests |-> IdleRequest]
    /\ eng = [r \in Requests |-> IdleEngine]
    /\ title = [r \in Requests |-> IdleTitle]
    /\ hlog = [r \in Requests |-> <<>>]
    /\ elog = [r \in Requests |-> <<>>]
    /\ tlog = [r \in Requests |-> <<>>]
    /\ adp = IdleAdapter
    /\ wire = NoRequest
    /\ broker = NewServer
    /\ lastCall = NoCall
    /\ budget = deltas
    /\ crashed = FALSE
    /\ faults = 0

Init == Boot(MaxDeltas)

(***************************************************************************)
(* HandleChats: the request handler                                        *)
(***************************************************************************)
Methods == {"GET", "POST"}
FormMessages == {"", "Hello"}

\* the handler writes the response and returns
Respond(r, status) == req' = [req EXCEPT ![r].pc = "done", ![r].status = status]

\* Main.chatDivs: one chat_title fragment per chat, the active one marked
chatDivs(ch, activeID) ==
    LET list == StoreChats(ch)
    IN  [i \in 1..Len(list) |->
            [ID |-> list[i].ID, Title |-> list[i].Title, Active |-> list[i].ID = activeID]]

\* the last stored message is an assistant message that ends in a CallTool
NeedsRepair(messages) ==
    /\ Len(messages) > 0
    /\ Last(messages).Role = RoleAssistant
    /\ Len(Last(messages).Contents) > 0
    /\ Last(Last(messages).Contents).Type = ContentTypeCallTool

\* a variant that stores the success flag itself as the failed flag
RepairedMessage_SameFlag(lastMessage, toolRes, success) ==
    [lastMessage EXCEPT !.Contents =
        Append(@, [EmptyToolResult(Last(lastMessage.Contents).CallToolID) EXCEPT
                      !.ToolResult = toolRes, !.CallToolFailed = success])]

\* continueChat: the repaired message, the tool result appended
RepairedMessage(lastMessage, toolRes, success) ==
    [lastMessage EXCEPT !.Contents =
        Append(@, ToolResultContent(Last(lastMessage.Contents), toolRes, success))]

\* HandleChats up to the first store access: the method and message checks,
\* then AddChat of newChat for an empty chat_id, or the entry of
\* continueChat.
\* variant: the message is not looked at
RejectStatus_AnyMessage(method, msg) == IF method # "POST" THEN 405 ELSE 0

\* the checks at the head of HandleChats: the status of the refusal, 0 when
\* the request goes on
RejectStatus(method, msg) ==
    IF method # "POST" THEN 405
    ELSE IF msg = "" THEN 400
    ELSE 0

HandleChats(r) ==
    /\ ~crashed
    /\ req[r].pc = "idle"
    /\ \E method \in Methods, msg \in FormMessages,
          chatID \in {NoID, UnknownChatID} \cup DOMAIN buckets :
        IF RejectStatus(method, msg) # 0
        THEN /\ req' = [req EXCEPT ![r].pc = "done", ![r].status = RejectStatus(method, msg),
                                   ![r].method = method, ![r].msg = msg]
             /\ UNCHANGED <<chats, buckets, hlog, faults>>
        ELSE IF chatID = NoID
        THEN \E dbOk \in Oks :
                LET newChat == [ID |-> NewUUID("chat", r), Title |-> ""]
                    added == StoreAddChat(chats, buckets, newChat)
                IN  /\ Fault(~dbOk)
                    /\ IF ~dbOk
                       THEN /\ req' = [req EXCEPT ![r].pc = "done", ![r].status = 500,
                                                  ![r].method = method, ![r].msg = msg]
                            /\ hlog' = [hlog EXCEPT ![r] =
                                           Append(@, StoreCall("AddChat", NoID, NoMessage, FALSE))]
                            /\ UNCHANGED <<chats, buckets>>
                       ELSE /\ chats' = added.chats
                            /\ buckets' = added.buckets
                            /\ hlog' = [hlog EXCEPT ![r] =
                                           Append(@, StoreCall("AddChat", added.id, NoMessage, TRUE))]
                            /\ req' = [req EXCEPT
                                           ![r].pc = "newChatDivs",
                                           ![r].method = method, ![r].msg = msg,
                                           ![r].chatID = added.id, ![r].isNewChat = TRUE]
        ELSE /\ req' = [req EXCEPT ![r].pc = "continueChat", ![r].method = method,
                                   ![r].msg = msg, ![r].chatID = chatID]
             /\ UNCHANGED <<chats, buckets, hlog, faults>>
    /\ UNCHANGED <<eng, title, elog, tlog, crashed, budget, lastCall, adp, wire, broker>>

\* newChat after AddChat: chatDivs reads the chats in a transaction of its
\* own and renders the list; when it fails newChat returns its error with
\* nothing published, and the chat stays stored.
NewChatDivs(r) ==
    /\ ~crashed
    /\ req[r].pc = "newChatDivs"
    /\ \E divsOk \in Oks :
        /\ Fault(~divsOk)
        /\ req' = [req EXCEPT ![r].pc = IF divsOk THEN "newChatPublish" ELSE "done",
                              ![r].status = IF divsOk THEN 0 ELSE 500,
                              ![r].divs = IF divsOk THEN chatDivs(chats, req[r].chatID) ELSE <<>>]
    /\ UNCHANGED <<chats, buckets, eng, title, hlog, elog, tlog, crashed, budget, lastCall, adp, wire, broker>>

\* newChat, last step: the list is published on the chats topic
NewChatPublish(r) ==
    /\ ~crashed
    /\ req[r].pc = "newChatPublish"
    /\ \E pubOk \in PublishOks :
        /\ Fault(~pubOk)
        /\ hlog' = [hlog EXCEPT ![r] =
                        Append(@, PublishCall(Event("chats", chatsSSETopic, ChatsData(req[r].divs)),
                                              pubOk))]
        /\ req' = [req EXCEPT ![r].pc = IF pubOk THEN "addUser" ELSE "done",
                              ![r].status = IF pubOk THEN 0 ELSE 500]
    /\ broker' = Broadcast(broker, hlog'[r], Len(hlog[r]))
    /\ UNCHANGED <<chats, buckets, eng, title, elog, tlog, crashed, budget, lastCall, adp, wire>>

\* continueChat, first half: read the messages and look at the last one
ContinueChatRead(r) ==
    /\ ~crashed
    /\ req[r].pc = "continueChat"
    /\ \E dbOk \in Oks :
        LET messages == StoreMessages(buckets, req[r].chatID)
        IN  /\ Fault(~dbOk)
            /\ IF ~dbOk THEN Respond(r, 500)
               ELSE IF NeedsRepair(messages)
               THEN req' = [req EXCEPT ![r].pc = "repair", ![r].lastMessage = Last(messages)]
               ELSE req' = [req EXCEPT ![r].pc = "addUser"]
    /\ UNCHANGED <<chats, buckets, eng, title, hlog, elog, tlog, crashed, budget, lastCall, adp, wire, broker>>

\* continueChat, second half: call the tool, append its result, store it
ContinueChatRepair(r) ==
    /\ ~crashed
    /\ req[r].pc = "repair"
    /\ \E outcome \in ToolOutcomes, dbOk \in Oks :
        LET call == Last(req[r].lastMessage.Contents)
            out == callTool(call.ToolName, call.ToolInput, outcome)
            repaired == RepairedMessage(req[r].lastMessage, out.res, out.success)
            ok == dbOk /\ MessageMarshalOK(repaired)
        IN  /\ Fault(~dbOk)
            /\ hlog' = [hlog EXCEPT ![r] =
                            @ \o ToolCalls(call.ToolName, call.ToolInput, outcome)
                              \o <<StoreCall("UpdateMessage", req[r].chatID, repaired, ok)>>]
            /\ buckets' = IF ok THEN StoreUpdateMessage(buckets, req[r].chatID, repaired)
                          ELSE buckets
            /\ req' = [req EXCEPT ![r].pc = IF ok THEN "addUser" ELSE "done",
                                  ![r].status = IF ok THEN 0 ELSE 500,
                                  ![r].lastMessage = repaired]
    /\ UNCHANGED <<chats, eng, title, elog, tlog, crashed, budget, lastCall, adp, wire, broker>>

\* AddMessage of the user's message
AddUserMessage(r) ==
    /\ ~crashed
    /\ req[r].pc = "addUser"
    /\ \E dbOk \in Oks :
        LET um == NewMessage(NewUUID("user", r), RoleUser, <<TextContent(req[r].msg)>>)
            added == StoreAddMessage(buckets, req[r].chatID, um)
        IN  /\ Fault(~dbOk)
            /\ hlog' = [hlog EXCEPT ![r] =
                            Append(@, StoreCall("AddMessage", req[r].chatID,
                                                [um EXCEPT !.ID = added.id], dbOk))]
            /\ buckets' = IF dbOk THEN added.buckets ELSE buckets
            /\ req' = [req EXCEPT ![r].pc = IF dbOk THEN "addAssistant" ELSE "done",
                                  ![r].status = IF dbOk THEN 0 ELSE 500,
                                  ![r].userMsgID = IF dbOk THEN added.id ELSE NoID]
    /\ UNCHANGED <<chats, eng, title, elog, tlog, crashed, budget, lastCall, adp, wire, broker>>

\* AddMessage of the empty assistant placeholder
AddAssistantMessage(r) ==
    /\ ~crashed
    /\ req[r].pc = "addAssistant"
    /\ \E dbOk \in Oks :
        LET am == NewMessage(NewUUID("ai", r), RoleAssistant, <<>>)
            added == StoreAddMessage(buckets, req[r].chatID, am)
        IN  /\ Fault(~dbOk)
            /\ hlog' = [hlog EXCEPT ![r] =
                            Append(@, StoreCall("AddMessage", req[r].chatID,
                                                [am EXCEPT !.ID = added.id], dbOk))]
            /\ buckets' = IF dbOk THEN added.buckets ELSE buckets
            /\ req' = [req EXCEPT ![r].pc = IF dbOk THEN "spawn" ELSE "done",
                                  ![r].status = IF dbOk THEN 0 ELSE 500,
                                  ![r].aiMsgID = IF dbOk THEN added.id ELSE NoID]
    /\ UNCHANGED <<chats, eng, title, elog, tlog, crashed, budget, lastCall, adp, wire, broker>>

\* Messages, then "go m.chat" and, for a new chat, "go m.generateChatTitle":
\* from here on the two tasks run while the handler renders its answer.  The
\* list read is the slice the Engine task is handed.
SpawnTasks(r) ==
    /\ ~crashed
    /\ req[r].pc = "spawn"
    /\ \E dbOk \in Oks :
        LET messages == StoreMessages(buckets, req[r].chatID)
        IN  /\ Fault(~dbOk)
            /\ hlog' = [hlog EXCEPT ![r] =
                            Append(@, StoreCall("Messages", req[r].chatID, NoMessage, dbOk))]
            /\ IF ~dbOk
               THEN /\ Respond(r, 500)
                    /\ UNCHANGED <<eng, title>>
               ELSE /\ req' = [req EXCEPT ![r].pc = "answer", ![r].messages = messages]
                    /\ eng' = [eng EXCEPT ![r] =
                                   [IdleEngine EXCEPT !.pc = "start", !.chatID = req[r].chatID,
                                                      !.messages = messages]]
                    /\ title' = IF req[r].isNewChat
                                THEN [title EXCEPT ![r] = [IdleTitle EXCEPT !.pc = "spawned",
                                                                             !.chatID = req[r].chatID,
                                                                             !.message = req[r].msg]]
                                ELSE title
    /\ UNCHANGED <<chats, buckets, elog, tlog, crashed, budget, lastCall, adp, wire, broker>>

\* a message as the chatbox, user_message and ai_message templates are
\* given it
RenderedMessage(id, role, contents, streamingState) ==
    [ID |-> id, Role |-> role, Content |-> RenderContents(contents),
     StreamingState |-> streamingState]

\* the loop over the messages of a new chat: the placeholder is "loading"
ChatboxMessages(messages, aiMsgID) ==
    [i \in 1..Len(messages) |->
        RenderedMessage(messages[i].ID, messages[i].Role, messages[i].Contents,
                        IF messages[i].ID = aiMsgID THEN "loading" ELSE "ended")]

\* the answer for a chat that existed: the user's message and the empty
\* placeholder, from the handler's own um and am
TurnMessages(r) ==
    <<RenderedMessage(req[r].userMsgID, RoleUser, <<TextContent(req[r].msg)>>, "ended"),
      RenderedMessage(req[r].aiMsgID, RoleAssistant, <<>>, "loading")>>

\* Main.chat has assigned to messages[len(messages)-1], an element of the
\* slice the handler of a new chat reads in its loop; nothing orders the
\* write and the reads.
SliceRaced(r) == req[r].isNewChat /\ eng[r].rounds > 1

\* What the handler's loop can read from the slice: the list as the store
\* returned it, or, once the Engine task has written to it, the list with
\* the rewritten last message as well.
HandlerViews(r) ==
    IF SliceRaced(r) THEN {req[r].messages, eng[r].messages} ELSE {req[r].messages}

\* The rest of HandleChats, while the tasks it started run: the messages are
\* rendered and the templates executed into the response; a rendering or
\* template error answers 500.  A read of the slice that races with the
\* Engine's write can also see a half-written element: the handler then
\* panics and its connection is dropped with no status.
RenderAnswer(r) ==
    /\ ~crashed
    /\ req[r].pc = "answer"
    /\ \/ \E renderOk \in Oks :
            /\ Fault(~renderOk)
            /\ IF ~renderOk
               THEN Respond(r, 500)
               ELSE \E view \in HandlerViews(r) :
                       req' = [req EXCEPT ![r].pc = "done", ![r].status = 200,
                                          ![r].answer = IF req[r].isNewChat
                                                        THEN ChatboxMessages(view, req[r].aiMsgID)
                                                        ELSE TurnMessages(r)]
       \/ /\ SliceRaced(r)
          /\ req' = [req EXCEPT ![r].pc = "aborted"]
          /\ UNCHANGED faults
    /\ UNCHANGED <<chats, buckets, eng, title, hlog, elog, tlog, crashed, budget, lastCall, adp, wire, broker>>

(***************************************************************************)
(* Main.chat: the Engine task                                              *)
(***************************************************************************)
\* The text fragments the provider streams: they alternate, so that the order
\* of two consecutive fragments shows in their concatenation.
TextDeltaAt(n) == IF n % 2 = 0 THEN "Hi " ELSE "there"
\* The tool calls a provider may yield: call id, tool name, raw input.
ProviderToolCalls ==
    {<<"t1", "clock", "{\"tz\":\"UTC\"}">>, <<"t1", "ghost", "{\"tz\":\"UTC\"}">>,
     <<"t1", "clock", "notjson">>}

\* What the provider's iterator can hand to the loop body next: a content,
\* an error, or the end of the stream.  A CallTool is handed out only while
\* the Engine may still open another stream.
RECURSIVE SumDeltas(_)
SumDeltas(rs) ==
    IF rs = {} THEN 0
    ELSE LET r == CHOOSE x \in rs : TRUE IN eng[r].deltas + SumDeltas(rs \ {r})
DeltasConsumed == SumDeltas(Requests)

StreamItem(kind, content, err) == [kind |-> kind, content |-> content, err |-> err]

ProviderItems(e) ==
    {StreamItem("end", TextContent(""), ""), StreamItem("error", TextContent(""), "provider failed")}
    \cup (IF DeltasConsumed < budget
          THEN {StreamItem("content", TextContent(TextDeltaAt(e.deltas)), ""),
                StreamItem("content", EmptyToolResult("t1"), "")}
          ELSE {})
    \cup (IF DeltasConsumed < budget /\ e.rounds < MaxRounds
          THEN {StreamItem("content", CallToolContent(c[1], c[2], c[3]), "") :
                    c \in ProviderToolCalls}
          ELSE {})

\* variant: the task runs under the context of the request that started it
ChatContext_Request(r) == "request"

\* The context Main.chat hands to llm.Chat: "go m.chat(chatID, messages)"
\* passes no context on, and the task uses context.Background().
ChatContext(r) == "background"

\* Whether the context is done.  The request's context is done once
\* HandleChats has returned or the client has closed the request; the
\* background context never is.
ContextDone(ctx, r) == ctx = "request" /\ req[r].pc \in {"done", "aborted"}

\* what a provider's iterator hands out under a context that is done: the
\* cancellation as an error, or the end of the sequence
CanceledItems ==
    {StreamItem("end", TextContent(""), ""),
     StreamItem("error", TextContent(""), "context canceled")}

\* what the stream opened by llm.Chat for request r can hand out next
StreamItems(r) ==
    IF ContextDone(ChatContext(r), r) THEN CanceledItems ELSE ProviderItems(eng[r])

\* a variant with no deferred function
DeferredClose_None == <<>>

\* The deferred function of Main.chat: publish closeMessage "bye" on the
\* default topic.  It runs on every return and on a panic.
DeferredClose == <<PublishCall(Event("closeMessage", DefaultTopic, PlainData("bye")), TRUE)>>

\* Top of the outer loop: llm.Chat opens a stream and the empty Text that
\* receives this stream's text is appended.
OpenStream(e) ==
    [e EXCEPT !.pc = "stream",
              !.aiMsg.Contents = Append(@, TextContent("")),
              !.contentIdx = @ + 1,
              !.callTool = FALSE,
              !.badToolInputFlag = FALSE,
              !.badToolInput = EmptyObjectRaw,
              !.rounds = @ + 1]

\* "go m.chat(chatID, messages)" runs up to its first stream: the deferred
\* close is registered, aiMsg := messages[len(messages)-1], and the first
\* stream is opened.  On an empty list the index panics: the deferred
\* function runs and publishes closeMessage, and the goroutine is left
\* panicking.
EngineStart(r) ==
    /\ ~crashed
    /\ eng[r].pc = "start"
    /\ IF eng[r].messages = <<>>
       THEN /\ eng' = [eng EXCEPT ![r].pc = "panic", ![r].exit = "panic"]
            /\ elog' = [elog EXCEPT ![r] = @ \o DeferredClose]
       ELSE /\ eng' = [eng EXCEPT ![r] =
                          OpenStream([eng[r] EXCEPT !.aiMsg = Last(eng[r].messages),
                                                    !.contentIdx = -1])]
            /\ elog' = [elog EXCEPT ![r] = Append(@, ChatCall(eng[r].messages))]
    /\ broker' = Broadcast(broker, elog'[r], Len(elog[r]))
    /\ UNCHANGED <<chats, buckets, req, title, hlog, tlog, crashed, faults, budget, lastCall, adp, wire>>

\* The panic of Main.chat after its deferred function has returned: nothing
\* recovers it, the runtime reports it and ends the process with every
\* goroutine in it.
EnginePanic(r) ==
    /\ ~crashed
    /\ eng[r].pc = "panic"
    /\ eng' = [eng EXCEPT ![r].pc = "done"]
    /\ crashed' = TRUE
    /\ UNCHANGED <<chats, buckets, req, title, hlog, elog, tlog, faults, budget, lastCall, adp, wire, broker>>

\* a variant that remembers a bad input and does not replace it
ValidateToolInput_Keep(content) ==
    [flag |-> ~RawMarshalOK(content.ToolInput), bad |-> content.ToolInput, content |-> content]

\* The CallTool case: an input that json.Marshal rejects is remembered and
\* replaced by {}.
ValidateToolInput(content) ==
    IF ~RawMarshalOK(content.ToolInput)
    THEN [flag |-> TRUE, bad |-> content.ToolInput,
          content |-> [content EXCEPT !.ToolInput = EmptyObjectRaw]]
    ELSE [flag |-> FALSE, bad |-> EmptyObjectRaw, content |-> content]

\* a variant that puts a Text delta in front of the text received so far
ApplyContent_Prepend(e, content) ==
    IF content.Type = ContentTypeText
    THEN [e EXCEPT !.aiMsg.Contents[e.contentIdx + 1].Text = content.Text \o @,
                   !.deltas = @ + 1]
    ELSE IF content.Type = ContentTypeCallTool
    THEN LET v == ValidateToolInput(content)
         IN  [e EXCEPT !.badToolInputFlag = v.flag,
                       !.badToolInput = IF v.flag THEN v.bad ELSE @,
                       !.callTool = TRUE,
                       !.aiMsg.Contents = Append(@, v.content),
                       !.contentIdx = @ + 1,
                       !.deltas = @ + 1]
    ELSE e

\* The switch on content.Type: the Engine's locals after the content is applied
ApplyContent(e, content) ==
    IF content.Type = ContentTypeText
    THEN [e EXCEPT !.aiMsg.Contents[e.contentIdx + 1].Text = @ \o content.Text,
                   !.deltas = @ + 1]
    ELSE IF content.Type = ContentTypeCallTool
    THEN LET v == ValidateToolInput(content)
         IN  [e EXCEPT !.badToolInputFlag = v.flag,
                       !.badToolInput = IF v.flag THEN v.bad ELSE @,
                       !.callTool = TRUE,
                       !.aiMsg.Contents = Append(@, v.content),
                       !.contentIdx = @ + 1,
                       !.deltas = @ + 1]
    ELSE e

\* a variant that goes on to render and publish whether or not the message
\* was stored
AfterUpdate_PublishAnyway(updOk) == "publish"

\* Where UpdateMessage leaves the loop body: out of the function when it
\* failed, else on to the rendering.
AfterUpdate(updOk) == IF updOk THEN "publish" ELSE "close"

\* the 'messages' event of a rendering of the working message, on the topic
\* of that message
RenderedEvent(aiMsg) ==
    Event("messages", messageIDTopic(aiMsg.ID), RenderContents(aiMsg.Contents))

\* a variant that goes on with the stream after a CallTool
AfterDelta_NoBreak(callToolFlag, updOk, renderOk, pubOk) ==
    IF ~(updOk /\ renderOk /\ pubOk) THEN "close" ELSE "stream"

\* Where the loop body leaves the Engine: out of the function on a failure,
\* out of the stream on a CallTool, else on to the next item.
AfterDelta(callToolFlag, updOk, renderOk, pubOk) ==
    IF ~(updOk /\ renderOk /\ pubOk) THEN "close"
    ELSE IF callToolFlag THEN "tool"
    ELSE "stream"

\* which return statement of the loop body was taken, if any
DeltaExit(updOk, renderOk, pubOk) ==
    IF ~updOk THEN "store_error"
    ELSE IF ~renderOk THEN "render_error"
    ELSE IF ~pubOk THEN "publish_error"
    ELSE ""

\* One iteration of the range loop over the provider stream, up to and
\* including UpdateMessage: the next item is taken and, a Text or a CallTool,
\* applied to the working message, which is stored.  The stream ending (no
\* CallTool was seen) leaves the outer loop and a ToolResult returns: the
\* deferred close is the one call made.  An error of the provider is
\* published on the topic of the message, and a failed UpdateMessage
\* returns: the deferred close is a second call, a step of its own.
EngineDelta(r) ==
    /\ ~crashed
    /\ eng[r].pc = "stream"
    /\ \E item \in StreamItems(r) :
        IF item.kind = "end"
        THEN /\ eng' = [eng EXCEPT ![r].pc = "done", ![r].exit = "end"]
             /\ elog' = [elog EXCEPT ![r] = @ \o DeferredClose]
             /\ UNCHANGED <<buckets, faults>>
        ELSE IF item.kind = "error"
        THEN /\ elog' = [elog EXCEPT ![r] =
                            Append(@, PublishCall(Event("messages", messageIDTopic(eng[r].aiMsg.ID),
                                                        PlainData(item.err)), TRUE))]
             /\ eng' = [eng EXCEPT ![r].pc = "close", ![r].exit = "provider_error"]
             /\ UNCHANGED <<buckets, faults>>
        ELSE IF item.content.Type = ContentTypeToolResult
        THEN /\ eng' = [eng EXCEPT ![r].pc = "done", ![r].exit = "tool_result_content"]
             /\ elog' = [elog EXCEPT ![r] = Append(@, YieldEntry(item.content)) \o DeferredClose]
             /\ UNCHANGED <<buckets, faults>>
        ELSE \E dbOk \in Oks :
                LET e1 == ApplyContent(eng[r], item.content)
                    updOk == dbOk /\ MessageMarshalOK(e1.aiMsg)
                IN  /\ Fault(~dbOk)
                    /\ buckets' = IF updOk
                                  THEN StoreUpdateMessage(buckets, e1.chatID, e1.aiMsg)
                                  ELSE buckets
                    /\ elog' = [elog EXCEPT ![r] =
                                    @ \o <<YieldEntry(item.content),
                                           StoreCall("UpdateMessage", e1.chatID, e1.aiMsg, updOk)>>]
                    /\ eng' = [eng EXCEPT ![r] =
                                    [e1 EXCEPT !.pc = AfterUpdate(updOk),
                                               !.exit = DeltaExit(updOk, TRUE, TRUE)]]
    /\ broker' = Broadcast(broker, elog'[r], Len(elog[r]))
    /\ UNCHANGED <<chats, req, title, hlog, tlog, crashed, budget, lastCall, adp, wire>>

\* The rest of the loop body: the stored message is rendered and the
\* rendering published on the topic of the message; a failure of either
\* returns, a CallTool leaves the stream.
EnginePublish(r) ==
    /\ ~crashed
    /\ eng[r].pc = "publish"
    /\ \E renderOk \in Oks, pubOk \in PublishOks :
        /\ Fault(~(renderOk /\ pubOk))
        /\ elog' = [elog EXCEPT ![r] =
                        IF renderOk
                        THEN Append(@, PublishCall(RenderedEvent(eng[r].aiMsg), pubOk))
                        ELSE @]
        /\ eng' = [eng EXCEPT ![r].pc = AfterDelta(eng[r].callTool, TRUE, renderOk, pubOk),
                              ![r].exit = DeltaExit(TRUE, renderOk, pubOk)]
    /\ broker' = Broadcast(broker, elog'[r], Len(elog[r]))
    /\ UNCHANGED <<chats, buckets, req, title, hlog, tlog, crashed, budget, lastCall, adp, wire>>

\* The deferred function runs as Main.chat returns after a call that
\* failed.
EngineClose(r) ==
    /\ ~crashed
    /\ eng[r].pc = "close"
    /\ elog' = [elog EXCEPT ![r] = @ \o DeferredClose]
    /\ eng' = [eng EXCEPT ![r].pc = "done"]
    /\ broker' = Broadcast(broker, elog'[r], Len(elog[r]))
    /\ UNCHANGED <<chats, buckets, req, title, hlog, tlog, crashed, faults, budget, lastCall, adp, wire>>

\* After the stream was left on a CallTool: the payload and success flag of
\* the ToolResult, and the tool-server calls made for it.
EngineToolResult(e, outcome) ==
    LET call == Last(e.aiMsg.Contents)
    IN  IF e.badToolInputFlag
        THEN [res |-> callToolError("tool input " \o e.badToolInput \o " is not valid json"),
              success |-> FALSE, calls |-> <<>>]
        ELSE LET out == callTool(call.ToolName, call.ToolInput, outcome)
             IN  [res |-> out.res, success |-> out.success,
                  calls |-> ToolCalls(call.ToolName, call.ToolInput, outcome)]

\* a variant that appends the ToolResult and leaves the history as it was
AfterTool_NoRewrite(e, res, success) ==
    [e EXCEPT !.aiMsg.Contents = Append(@, ToolResultContent(Last(e.aiMsg.Contents), res, success)),
              !.contentIdx = @ + 1]

\* a variant that appends the ToolResult and does not advance the cursor
AfterTool_NoCursor(e, res, success) ==
    LET aiMsg == [e.aiMsg EXCEPT !.Contents =
                        Append(@, ToolResultContent(Last(e.aiMsg.Contents), res, success))]
    IN  [e EXCEPT !.aiMsg = aiMsg, !.messages[Len(e.messages)] = aiMsg]

\* The locals after the ToolResult is appended and the last history entry
\* is rewritten.
AfterTool(e, res, success) ==
    LET aiMsg == [e.aiMsg EXCEPT !.Contents =
                        Append(@, ToolResultContent(Last(e.aiMsg.Contents), res, success))]
    IN  [e EXCEPT !.aiMsg = aiMsg,
                  !.contentIdx = @ + 1,
                  !.messages[Len(e.messages)] = aiMsg]

\* The calls from the end of the stream loop to the next stream: the tool
\* dispatch, then llm.Chat on the rewritten history.
ToolStepCalls(toolCalls, e2) == toolCalls \o <<ChatCall(e2.messages)>>

\* The rest of the outer loop body after a CallTool, and the top of the next
\* iteration: dispatch the tool (or report the bad input), append the
\* ToolResult, rewrite the history, open the next stream.
EngineTool(r) ==
    /\ ~crashed
    /\ eng[r].pc = "tool"
    /\ \E outcome \in ToolOutcomes :
        LET t == EngineToolResult(eng[r], outcome)
            e2 == AfterTool(eng[r], t.res, t.success)
        IN  /\ elog' = [elog EXCEPT ![r] = @ \o ToolStepCalls(t.calls, e2)]
            /\ eng' = [eng EXCEPT ![r] = OpenStream(e2)]
    /\ UNCHANGED <<chats, buckets, req, title, hlog, tlog, crashed, faults, budget, lastCall, adp, wire, broker>>

(***************************************************************************)
(* Main.generateChatTitle                                                  *)
(***************************************************************************)
GeneratedTitles == {"Greeting"}

\* variant: the chat is stored without the generated title
TitledChat_Untitled(chatID, t) == [ID |-> chatID, Title |-> ""]

\* models.Chat{ID: chatID, Title: title}
TitledChat(chatID, t) == [ID |-> chatID, Title |-> t]

\* variant: the transaction also empties the chat's message bucket
UpdateChatTx_ResetBucket(ch, bk, chat) ==
    [chats |-> StoreUpdateChat(ch, chat),
     buckets |-> IF chat.ID \in DOMAIN bk THEN [bk EXCEPT ![chat.ID].recs = {}] ELSE bk]

\* The store after the transaction of UpdateChat: it opens the chats bucket
\* and no message bucket.
UpdateChatTx(ch, bk, chat) == [chats |-> StoreUpdateChat(ch, chat), buckets |-> bk]

\* generateChatTitle up to and including UpdateChat: the title is
\* generated and stored; a failure of either returns.
TitleGenerate(r) ==
    /\ ~crashed
    /\ title[r].pc = "spawned"
    /\ \E genOk \in Oks, dbOk \in Oks, t \in GeneratedTitles :
        LET updatedChat == TitledChat(title[r].chatID, t)
            tx == UpdateChatTx(chats, buckets, updatedChat)
        IN  /\ Fault(~(genOk /\ dbOk))
            /\ IF ~genOk
               THEN /\ title' = [title EXCEPT ![r].pc = "done"]
                    /\ UNCHANGED <<chats, buckets, tlog>>
               ELSE IF ~dbOk
               THEN /\ tlog' = [tlog EXCEPT ![r] =
                                   Append(@, StoreCall("UpdateChat", title[r].chatID, NoMessage, FALSE))]
                    /\ title' = [title EXCEPT ![r].pc = "done"]
                    /\ UNCHANGED <<chats, buckets>>
               ELSE /\ chats' = tx.chats
                    /\ buckets' = tx.buckets
                    /\ tlog' = [tlog EXCEPT ![r] =
                                   Append(@, StoreCall("UpdateChat", title[r].chatID, NoMessage, TRUE))]
                    /\ title' = [title EXCEPT ![r].pc = "divs"]
    /\ UNCHANGED <<req, eng, hlog, elog, crashed, budget, lastCall, adp, wire, broker>>

\* generateChatTitle after UpdateChat: chatDivs reads the chats in a
\* transaction of its own and renders the list; a failure returns.
TitleDivs(r) ==
    /\ ~crashed
    /\ title[r].pc = "divs"
    /\ \E divsOk \in Oks :
        /\ Fault(~divsOk)
        /\ title' = [title EXCEPT ![r].pc = IF divsOk THEN "publish" ELSE "done",
                                  ![r].divs = IF divsOk THEN chatDivs(chats, title[r].chatID)
                                              ELSE <<>>]
    /\ UNCHANGED <<chats, buckets, req, eng, hlog, elog, tlog, crashed, budget, lastCall, adp, wire, broker>>

\* generateChatTitle, last step: the list is published on the chats topic
TitlePublish(r) ==
    /\ ~crashed
    /\ title[r].pc = "publish"
    /\ \E pubOk \in PublishOks :
        /\ Fault(~pubOk)
        /\ tlog' = [tlog EXCEPT ![r] =
                        Append(@, PublishCall(Event("chats", chatsSSETopic,
                                                    ChatsData(title[r].divs)), pubOk))]
    /\ title' = [title EXCEPT ![r].pc = "done"]
    /\ broker' = Broadcast(broker, tlog'[r], Len(tlog[r]))
    /\ UNCHANGED <<chats, buckets, req, eng, hlog, elog, crashed, budget, lastCall, adp, wire>>

(***************************************************************************)
(* The Store interface called directly                                     *)
(***************************************************************************)
RECURSIVE SumSeq(_, _)
\* the records AddMessage has added to the buckets cs
SumSeq(bk, cs) ==
    IF cs = {} THEN 0
    ELSE LET c == CHOOSE x \in cs : TRUE IN bk[c].seq + SumSeq(bk, cs \ {c})
Inserted == chats.seq + SumSeq(buckets, DOMAIN buckets)

ClientChat == [ID |-> NewUUID("chat", "t"), Title |-> ""]
ClientMessage == NewMessage(NewUUID("msg", "t"), RoleUser, <<TextContent("Hello")>>)
\* the chat ids a client may name: the stored ones and one that is not stored
ClientChatIDs == DOMAIN buckets \cup {UnknownChatID}

\* store.AddChat(ctx, chat); an error rolls the transaction back
ClientAddChat ==
    /\ Inserted < MaxInserts
    /\ chats.seq < MaxChats
    /\ \E ok \in BOOLEAN :
        LET added == StoreAddChat(chats, buckets, ClientChat)
        IN  /\ chats' = IF ok THEN added.chats ELSE chats
            /\ buckets' = IF ok THEN added.buckets ELSE buckets
            /\ lastCall' = ClientCall("AddChat", NoID, NoMessage, ClientChat, added.id, ok)
    /\ UNCHANGED <<req, eng, title, hlog, elog, tlog, budget, crashed, faults, adp, wire, broker>>

\* store.AddMessage(ctx, chatID, message)
ClientAddMessage ==
    /\ Inserted < MaxInserts
    /\ \E chatID \in ClientChatIDs, ok \in BOOLEAN :
        LET added == StoreAddMessage(buckets, chatID, ClientMessage)
        IN  /\ buckets' = IF ok THEN added.buckets ELSE buckets
            /\ lastCall' = ClientCall("AddMessage", chatID, ClientMessage, NoChat, added.id, ok)
    /\ UNCHANGED <<chats, req, eng, title, hlog, elog, tlog, budget, crashed, faults, adp, wire, broker>>

\* store.UpdateMessage(ctx, chatID, message), the id one that AddMessage
\* returned or one it has not returned
ClientUpdateMessage ==
    /\ \E chatID \in ClientChatIDs, idPrefix \in 1..MaxEdited, ok \in BOOLEAN :
        LET message == NewMessage(FormatID(idPrefix, ClientMessage.ID), RoleUser,
                                  <<TextContent("Edited")>>)
        IN  /\ buckets' = IF ok THEN StoreUpdateMessage(buckets, chatID, message) ELSE buckets
            /\ lastCall' = ClientCall("UpdateMessage", chatID, message, NoChat, NoID, ok)
    /\ UNCHANGED <<chats, req, eng, title, hlog, elog, tlog, budget, crashed, faults, adp, wire, broker>>

\* store.UpdateChat(ctx, chat), the id one that AddChat returned or one it
\* has not returned
ClientUpdateChat ==
    /\ \E idPrefix \in 1..MaxEdited, ok \in BOOLEAN :
        LET chat == [ID |-> FormatID(idPrefix, ClientChat.ID), Title |-> "Renamed"]
        IN  /\ chats' = IF ok THEN StoreUpdateChat(chats, chat) ELSE chats
            /\ lastCall' = ClientCall("UpdateChat", NoID, NoMessage, chat, NoID, ok)
    /\ UNCHANGED <<buckets, req, eng, title, hlog, elog, tlog, budget, crashed, faults, adp, wire, broker>>

(***************************************************************************)
(* Provider adapters: the Chat iterators of Anthropic, OpenAI, OpenRouter  *)
(* and Ollama, from the upstream stream to the contents they yield         *)
(***************************************************************************)
Adapters == {"anthropic", "openai", "openrouter", "ollama"}

\* models.Content{}
ZeroContent ==
    [Type |-> "", Text |-> "", ToolName |-> "", ToolInput |-> NilRaw,
     ToolResult |-> JNull, CallToolID |-> "", CallToolFailed |-> FALSE]

\* api.ToolCallFunctionArguments, a map[string]any: nil, empty, or with entries
NilArgs == [isNil |-> TRUE, entries |-> {}]
EmptyArgs == [isNil |-> FALSE, entries |-> {}]
TzArgs == [isNil |-> FALSE, entries |-> {<<"tz", "UTC">>}]

\* json.Marshal of such a map (of at most one string entry)
MarshalArguments(m) ==
    IF m.isNil THEN "null"
    ELSE IF m.entries = {} THEN "{}"
    ELSE LET e == CHOOSE x \in m.entries : TRUE
         IN  "{\"" \o e[1] \o "\":\"" \o e[2] \o "\"}"

\* One upstream event as the adapter decodes it; "cancel" is the read that
\* fails with context.Canceled because the context of the call was cancelled.  Anthropic: an SSE event
\* with its type, the content block's type, name and id, and the delta's text
\* and partial_json.  OpenAI, OpenRouter: a chunk, the first choice's delta
\* content (text) and, if hasCall, its first tool call (id, name, partial
\* arguments).  Ollama: a response, the message content (text) and, if
\* hasCall, its first tool call (name, arguments).
Upstream(type, blockType, name, id, text, partial, hasCall, arguments) ==
    [type |-> type, blockType |-> blockType, name |-> name, id |-> id, text |-> text,
     partial |-> partial, hasCall |-> hasCall, arguments |-> arguments]
Bare(type) == Upstream(type, "", "", "", "", "", FALSE, NilArgs)

\* the argument fragments an upstream sends; the two concatenate to an object
Fragments == <<"{\"tz\":", "\"UTC\"}">>

AnthropicEvents ==
    {Upstream("content_block_start", "tool_use", "clock", "t1", "", "", FALSE, NilArgs),
     Upstream("content_block_start", "text", "", "", "", "", FALSE, NilArgs),
     Upstream("content_block_delta", "", "", "", "Hi ", "", FALSE, NilArgs),
     Upstream("content_block_delta", "", "", "", "", Fragments[1], FALSE, NilArgs),
     Upstream("content_block_delta", "", "", "", "", Fragments[2], FALSE, NilArgs),
     Bare("content_block_stop"), Bare("message_stop"), Bare("error"), Bare("cancel")}

\* chunks of a chat-completion stream; "end" is io.EOF for OpenAI and the
\* [DONE] event for OpenRouter.  A chunk with a call id opens a tool call,
\* the chunks without one that follow carry more of its arguments; the chunk
\* of call t2 opens a further call with all its arguments.
ChoiceChunks ==
    {Upstream("chunk", "", "", "", "Hi ", "", FALSE, NilArgs),
     Upstream("chunk", "", "clock", "t1", "", "", TRUE, NilArgs),
     Upstream("chunk", "", "weather", "t2", "", "{\"q\":1}", TRUE, NilArgs),
     Upstream("chunk", "", "", "", "", Fragments[1], TRUE, NilArgs),
     Upstream("chunk", "", "", "", "", Fragments[2], TRUE, NilArgs),
     Bare("no_choices"), Bare("end"), Bare("error"), Bare("cancel")}

OllamaResponses ==
    {Upstream("response", "", "", "", "Hi ", "", FALSE, NilArgs),
     Upstream("response", "", "clock", "", "", "", TRUE, NilArgs),
     Upstream("response", "", "clock", "", "", "", TRUE, EmptyArgs),
     Upstream("response", "", "clock", "", "", "", TRUE, TzArgs),
     Bare("end"), Bare("error"), Bare("cancel")}

\* time.Now().UnixMilli()
ClockMillis == {1000, 1001}

\* yield(content, nil), the consumer going on, and yield(Content{}, err)
YieldContent(a, content) == [a EXCEPT !.out = Append(@, StreamItem("content", content, ""))]

\* yield has returned false: the loop body of the consumer broke out of the
\* range loop or returned, which it does on the patience-th item (patience 0:
\* it takes every item)
Stopped(a) == a.patience > 0 /\ Len(a.out) >= a.patience
\* yield was called again after it had returned false: the Go runtime
\* panics in that call
Panicked(a) == a.patience > 0 /\ Len(a.out) > a.patience
\* "if !yield(...) { return }"
ReturnIfStopped(a) == IF Stopped(a) THEN [a EXCEPT !.pc = "done"] ELSE a
YieldError(a, err) ==
    [a EXCEPT !.out = Append(@, StreamItem("error", ZeroContent, err)), !.pc = "done"]

\* the end of both chat-completion adapters: the assembled tool call, if any
YieldAssembled(a) ==
    IF a.toolUse
    THEN LET toolArgs == IF a.toolArgs = "" THEN "{}" ELSE a.toolArgs
             content == [a.callToolContent EXCEPT !.ToolInput = toolArgs]
         IN  [YieldContent(a, content) EXCEPT !.pc = "done", !.toolArgs = toolArgs,
                                              !.callToolContent = content]
    ELSE [a EXCEPT !.pc = "done"]

\* Anthropic.Chat: the body of the loop over the SSE events
AnthropicStep(a0, ev) ==
    LET a == [a0 EXCEPT !.received = Append(@, ev)]
    IN  IF ev.type = "cancel" THEN YieldError(a, "error reading response: context canceled")
        ELSE IF ev.type = "error" THEN YieldError(a, "anthropic error overloaded_error: Overloaded")
        ELSE IF ev.type = "message_stop" THEN [a EXCEPT !.pc = "done"]
        ELSE IF ev.type = "content_block_start"
        THEN IF ev.blockType # "tool_use" THEN a
             ELSE [a EXCEPT !.toolUse = TRUE,
                            !.callToolContent.ToolName = ev.name,
                            !.callToolContent.CallToolID = ev.id]
        ELSE IF ev.type = "content_block_delta"
        THEN IF a.toolUse THEN [a EXCEPT !.toolArgs = @ \o ev.partial]
             ELSE ReturnIfStopped(YieldContent(a, TextContent(ev.text)))
        ELSE IF ev.type = "content_block_stop"
        THEN IF ~a.toolUse THEN a
             ELSE LET inputJSON == IF a.toolArgs = "" THEN "{}" ELSE a.toolArgs
                      content == [a.callToolContent EXCEPT !.ToolInput = inputJSON]
                      b == [YieldContent(a, content) EXCEPT !.callToolContent = content]
                  IN  IF Stopped(b) THEN ReturnIfStopped(b)
                      ELSE [b EXCEPT !.toolUse = FALSE, !.toolArgs = ""]
        ELSE a

\* variant: each chunk's arguments replace the ones accumulated so far
AccumulateCall_Overwrite(a, ev, toolID) ==
    IF ~ev.hasCall THEN a
    ELSE LET a1 == [a EXCEPT !.toolArgs = ev.partial]
         IN  IF a.toolUse THEN a1
             ELSE [a1 EXCEPT !.toolUse = TRUE,
                             !.callToolContent.ToolName = ev.name,
                             !.callToolContent.CallToolID = toolID]

\* the tool-call part of a chunk, for both chat-completion adapters: the
\* arguments are added, the first call's name and id are kept
AccumulateCall(a, ev, toolID) ==
    IF ~ev.hasCall THEN a
    ELSE LET a1 == [a EXCEPT !.toolArgs = @ \o ev.partial]
         IN  IF a.toolUse THEN a1
             ELSE [a1 EXCEPT !.toolUse = TRUE,
                             !.callToolContent.ToolName = ev.name,
                             !.callToolContent.CallToolID = toolID]

\* the content part of a chunk
YieldDeltaContent(a, ev) == IF ev.text # "" THEN YieldContent(a, TextContent(ev.text)) ELSE a

\* OpenAI.Chat: the body of the loop over stream.Recv(), and what follows it
OpenAIStep(a0, ev) ==
    LET a == [a0 EXCEPT !.received = Append(@, ev)]
    IN  IF ev.type = "end" THEN YieldAssembled(a)
        ELSE IF ev.type = "cancel" THEN [a EXCEPT !.pc = "done"]
        ELSE IF ev.type = "error" THEN YieldError(a, "error receiving response: unexpected EOF")
        ELSE IF ev.type = "no_choices" THEN a
        ELSE LET b == YieldDeltaContent(a, ev)
             IN  IF ev.text # "" /\ Stopped(b) THEN ReturnIfStopped(b)
                 ELSE AccumulateCall(b, ev, ev.id)

\* OpenRouter.Chat: the body of the loop over the SSE events, and what
\* follows it; the call id gets the time in milliseconds as a suffix.  When
\* yield returns false on a text the loop is left with break, and what
\* follows the loop runs.
OpenRouterStep(a0, ev, ms) ==
    LET a == [a0 EXCEPT !.received = Append(@, ev)]
    IN  IF ev.type = "end" THEN YieldAssembled(a)
        ELSE IF ev.type = "cancel" THEN YieldError(a, "error reading response: context canceled")
        ELSE IF ev.type = "error" THEN YieldError(a, "error reading response: unexpected EOF")
        ELSE IF ev.type = "no_choices" THEN a
        ELSE LET toolID == ev.id \o "-" \o ToString(ms)
                 a1 == AccumulateCall(a, ev, toolID)
                 b == YieldDeltaContent([a1 EXCEPT !.now = IF ev.hasCall /\ ~a.toolUse THEN ms ELSE @], ev)
             IN  IF ev.text # "" /\ Stopped(b) THEN YieldAssembled(b) ELSE b

\* Ollama.Chat: the callback for one response, and the return of client.Chat.
\* When yield returns false the callback cancels the context and returns
\* nil; client.Chat goes on with the responses it has already read, or
\* returns.
OllamaStep(a0, ev) ==
    LET a == [a0 EXCEPT !.received = Append(@, ev)]
    IN  IF ev.type \in {"end", "cancel"} THEN [a EXCEPT !.pc = "done"]
        ELSE IF ev.type = "error" THEN YieldError(a, "error sending request: connection refused")
        ELSE LET a1 == YieldDeltaContent(a, ev)
             IN  IF ~ev.hasCall \/ (ev.text # "" /\ Stopped(a1)) THEN a1
                 ELSE YieldContent(a1, [ZeroContent EXCEPT
                                           !.Type = ContentTypeCallTool,
                                           !.ToolName = ev.name,
                                           !.ToolInput = MarshalArguments(ev.arguments)])

\* the ways the request of a Chat call ends: sent, failed, or cancelled with
\* the context
RequestOutcomes == {"ok", "error", "cancel"}

\* the start of a Chat iterator: Anthropic, OpenRouter and Ollama return
\* silently when the request fails with context.Canceled, OpenAI yields the
\* error of CreateChatCompletionStream whatever it is; Ollama's request is
\* part of client.Chat, whose callback runs while streaming
SendRequest(a0, kind, outcome) ==
    LET a == [a0 EXCEPT !.kind = kind]
    IN  IF outcome = "ok" \/ kind = "ollama" THEN [a EXCEPT !.pc = "streaming"]
        ELSE IF outcome = "error"
        THEN YieldError([a EXCEPT !.received = <<Bare("error")>>],
                        "error sending request: connection refused")
        ELSE IF kind = "openai"
        THEN YieldError([a EXCEPT !.received = <<Bare("cancel")>>],
                        "error sending request: context canceled")
        ELSE [a EXCEPT !.received = <<Bare("cancel")>>, !.pc = "done"]

\* llm.Chat(ctx, messages, tools) is called and the iterator is run: the
\* request is sent, fails, or is cancelled
AdapterChat ==
    /\ adp.pc = "idle"
    /\ \E kind \in Adapters, outcome \in RequestOutcomes :
        adp' = SendRequest(adp, kind, outcome)
    /\ UNCHANGED <<chats, buckets, req, eng, title, hlog, elog, tlog, lastCall, budget, crashed, faults, wire, broker>>

\* llm.Chat is called by a consumer whose loop body stops at one of the
\* first items: a CallTool, or a content it fails to store or publish
ConsumerChat ==
    /\ adp.pc = "idle"
    /\ \E kind \in Adapters, outcome \in RequestOutcomes, patience \in 1..MaxPatience :
        adp' = SendRequest([adp EXCEPT !.patience = patience], kind, outcome)
    /\ UNCHANGED <<chats, buckets, req, eng, title, hlog, elog, tlog, lastCall, budget, crashed, faults, wire, broker>>

Streaming(kind) ==
    /\ adp.kind = kind /\ adp.pc = "streaming" /\ Len(adp.received) < MaxEvents
    /\ ~Panicked(adp)

AnthropicRead ==
    /\ Streaming("anthropic")
    /\ \E ev \in AnthropicEvents : adp' = AnthropicStep(adp, ev)
    /\ UNCHANGED <<chats, buckets, req, eng, title, hlog, elog, tlog, lastCall, budget, crashed, faults, wire, broker>>

OpenAIRecv ==
    /\ Streaming("openai")
    /\ \E ev \in ChoiceChunks : adp' = OpenAIStep(adp, ev)
    /\ UNCHANGED <<chats, buckets, req, eng, title, hlog, elog, tlog, lastCall, budget, crashed, faults, wire, broker>>

OpenRouterRead ==
    /\ Streaming("openrouter")
    /\ \E ev \in ChoiceChunks, ms \in ClockMillis : adp' = OpenRouterStep(adp, ev, ms)
    /\ UNCHANGED <<chats, buckets, req, eng, title, hlog, elog, tlog, lastCall, budget, crashed, faults, wire, broker>>

OllamaCallback ==
    /\ Streaming("ollama")
    /\ \E ev \in OllamaResponses : adp' = OllamaStep(adp, ev)
    /\ UNCHANGED <<chats, buckets, req, eng, title, hlog, elog, tlog, lastCall, budget, crashed, faults, wire, broker>>

(***************************************************************************)
(* Canonical-to-wire translation: the messages each adapter puts in its    *)
(* request for a history                                                   *)
(***************************************************************************)
\* anthropicMessageContent
WireBlock(type, text, id, name, input, toolUseID, isError, content) ==
    [Type |-> type, Text |-> text, ID |-> id, Name |-> name, Input |-> input,
     ToolUseID |-> toolUseID, IsError |-> isError, Content |-> content]

\* one tool call of a chat-completion message (ID, Name, Arguments as text)
\* or of an Ollama message (Name, Parsed arguments)
WireCall(id, name, arguments, parsed) ==
    [ID |-> id, Name |-> name, Arguments |-> arguments, Parsed |-> parsed]

\* one message of a request.  Anthropic: Role and Blocks.  The others: Role,
\* Content, ToolCalls, ToolCallID; the content of a "tool" message, which is
\* string(ct.ToolResult), is kept apart in ToolContent.
WireMessage(role, content, blocks, toolCalls, toolCallID, toolContent) ==
    [Role |-> role, Content |-> content, Blocks |-> blocks, ToolCalls |-> toolCalls,
     ToolCallID |-> toolCallID, ToolContent |-> toolContent]

TextTurn(role, text) == WireMessage(role, text, <<>>, <<>>, "", JNull)
SystemPrompt == "You are helpful."

\* json.Unmarshal(ct.ToolInput, &args) into a map[string]any
UnmarshalOK(raw) == raw \in ValidJSONTexts
UnmarshalArguments(raw) ==
    IF raw = "{}" THEN EmptyArgs
    ELSE IF raw = "null" THEN NilArgs
    ELSE TzArgs

\* what a translation returns: the messages, or an error
Translated(msgs) == [msgs |-> msgs, err |-> ""]
TranslateError(err) == [msgs |-> <<>>, err |-> err]
UserContentsError == "user message should only contain one content"

\* Anthropic.doRequest, the loop over the contents of one assistant message:
\* text blocks are collected in contents, a tool_use block closes an assistant
\* turn with them, a tool_result is a user turn of its own
RECURSIVE AnthropicContents(_, _, _, _, _)
AnthropicContents(role, cs, i, contents, msgs) ==
    IF i > Len(cs) THEN msgs
    ELSE LET ct == cs[i]
         IN  IF ct.Type = ContentTypeText
             THEN AnthropicContents(role, cs, i + 1,
                     IF ct.Text # ""
                     THEN Append(contents, WireBlock("text", ct.Text, "", "", NilRaw, "", FALSE, JNull))
                     ELSE contents,
                     msgs)
             ELSE IF ct.Type = ContentTypeCallTool
             THEN AnthropicContents(role, cs, i + 1, <<>>,
                     Append(msgs, WireMessage(role, "",
                        Append(contents, WireBlock("tool_use", "", ct.CallToolID, ct.ToolName,
                                                   ct.ToolInput, "", FALSE, JNull)),
                        <<>>, "", JNull)))
             ELSE IF ct.Type = ContentTypeToolResult
             THEN AnthropicContents(role, cs, i + 1, contents,
                     Append(msgs, WireMessage("user", "",
                        <<WireBlock("tool_result", "", "", "", NilRaw, ct.CallToolID,
                                    ct.CallToolFailed, ct.ToolResult)>>,
                        <<>>, "", JNull)))
             ELSE AnthropicContents(role, cs, i + 1, contents, msgs)

\* Anthropic.doRequest: msgs for the first n messages of the history
RECURSIVE AnthropicMessages(_, _)
AnthropicMessages(messages, n) ==
    IF n = 0 THEN Translated(<<>>)
    ELSE LET before == AnthropicMessages(messages, n - 1)
             msg == messages[n]
         IN  IF before.err # "" THEN before
             ELSE IF msg.Role = RoleUser
             THEN IF Len(msg.Contents) # 1 THEN TranslateError(UserContentsError)
                  ELSE Translated(Append(before.msgs, WireMessage(msg.Role, "",
                          <<WireBlock("text", msg.Contents[1].Text, "", "", NilRaw, "", FALSE, JNull)>>,
                          <<>>, "", JNull)))
             ELSE Translated(AnthropicContents(msg.Role, msg.Contents, 1, <<>>, before.msgs))

\* variant: the tool message does not name the call
ToolMessage_NoID(ct, withID) == WireMessage("tool", "", <<>>, <<>>, "", ct.ToolResult)

\* the "tool" message of a ToolResult content; Ollama's has no call id
ToolMessage(ct, withID) ==
    WireMessage("tool", "", <<>>, <<>>, IF withID THEN ct.CallToolID ELSE "", ct.ToolResult)

\* the loop over the contents of one message in openAIMessages (callRole is
\* the message's role) and in OpenRouter.doRequest (callRole is "assistant")
RECURSIVE ChoiceContents(_, _, _, _, _)
ChoiceContents(role, callRole, cs, i, msgs) ==
    IF i > Len(cs) THEN msgs
    ELSE LET ct == cs[i]
         IN  ChoiceContents(role, callRole, cs, i + 1,
                IF ct.Type = ContentTypeText
                THEN IF ct.Text # "" THEN Append(msgs, TextTurn(role, ct.Text)) ELSE msgs
                ELSE IF ct.Type = ContentTypeCallTool
                THEN Append(msgs, WireMessage(callRole, "", <<>>,
                        <<WireCall(ct.CallToolID, ct.ToolName, ct.ToolInput, NilArgs)>>, "", JNull))
                ELSE IF ct.Type = ContentTypeToolResult
                THEN Append(msgs, ToolMessage(ct, TRUE))
                ELSE msgs)

\* openAIMessages: msgs for the first n messages of the history
RECURSIVE openAIMessages(_, _)
openAIMessages(messages, n) ==
    IF n = 0 THEN Translated(<<>>)
    ELSE LET before == openAIMessages(messages, n - 1)
             msg == messages[n]
         IN  IF before.err # "" THEN before
             ELSE IF msg.Role = RoleUser
             THEN IF Len(msg.Contents) # 1 THEN TranslateError(UserContentsError)
                  ELSE Translated(Append(before.msgs, TextTurn(msg.Role, msg.Contents[1].Text)))
             ELSE Translated(ChoiceContents(msg.Role, msg.Role, msg.Contents, 1, before.msgs))

\* OpenRouter.doRequest: every message goes through the loop over its
\* contents, then the system prompt is put in front
RECURSIVE OpenRouterLoop(_, _)
OpenRouterLoop(messages, n) ==
    IF n = 0 THEN <<>>
    ELSE ChoiceContents(messages[n].Role, "assistant", messages[n].Contents, 1,
                        OpenRouterLoop(messages, n - 1))
OpenRouterMessages(messages) ==
    Translated(<<TextTurn("system", SystemPrompt)>> \o OpenRouterLoop(messages, Len(messages)))

\* ollamaMessages, the loop over the contents of one assistant message
RECURSIVE OllamaContents(_, _, _, _)
OllamaContents(role, cs, i, out) ==
    IF i > Len(cs) \/ out.err # "" THEN out
    ELSE LET ct == cs[i]
         IN  OllamaContents(role, cs, i + 1,
                IF ct.Type = ContentTypeText
                THEN IF ct.Text # "" THEN Translated(Append(out.msgs, TextTurn(role, ct.Text))) ELSE out
                ELSE IF ct.Type = ContentTypeCallTool
                THEN IF ~UnmarshalOK(ct.ToolInput)
                     THEN TranslateError("error unmarshaling tool input")
                     ELSE Translated(Append(out.msgs, WireMessage(role, "", <<>>,
                             <<WireCall("", ct.ToolName, "", UnmarshalArguments(ct.ToolInput))>>,
                             "", JNull)))
                ELSE IF ct.Type = ContentTypeToolResult
                THEN Translated(Append(out.msgs, ToolMessage(ct, FALSE)))
                ELSE out)

\* ollamaMessages: msgs for the first n messages of the history
RECURSIVE ollamaMessages(_, _)
ollamaMessages(messages, n) ==
    IF n = 0 THEN Translated(<<>>)
    ELSE LET before == ollamaMessages(messages, n - 1)
             msg == messages[n]
         IN  IF before.err # "" THEN before
             ELSE IF msg.Role = RoleUser
             THEN IF Len(msg.Contents) # 1 THEN TranslateError(UserContentsError)
                  ELSE Translated(Append(before.msgs, TextTurn(msg.Role, msg.Contents[1].Text)))
             ELSE OllamaContents(msg.Role, msg.Contents, 1, before)

\* the contents a history is made of: texts, one of them empty, a tool call
\* with its result, and a tool call whose input is no JSON text
HistoryContents ==
    {TextContent("Hello"), TextContent(""),
     CallToolContent("t1", "clock", "{\"tz\":\"UTC\"}"),
     [EmptyToolResult("t1") EXCEPT !.ToolResult = JArray(<<McpText("noon")>>)],
     CallToolContent("t2", "clock", NilRaw)}

ContentLists(n) == UNION {[1..k -> HistoryContents] : k \in 0..n}

\* the messages a caller puts in a history: a user message of one text, and
\* assistant messages of up to MaxContents contents
HistoryMessages ==
    {NewMessage(NoID, RoleUser, <<TextContent("Hi")>>),
     NewMessage(NoID, RoleUser, <<>>)}
    \cup {NewMessage(NoID, RoleAssistant, cs) : cs \in ContentLists(MaxContents)}

\* the caller of Chat puts one more message in the history
HistoryAppend ==
    /\ wire.pc = "building"
    /\ Len(wire.messages) < MaxHistory
    /\ \E msg \in HistoryMessages : wire' = [wire EXCEPT !.messages = Append(@, msg)]
    /\ UNCHANGED <<chats, buckets, req, eng, title, hlog, elog, tlog, adp, lastCall, budget, crashed, faults, broker>>

Sent(kind, res) == [wire EXCEPT !.kind = kind, !.pc = "sent", !.msgs = res.msgs, !.err = res.err]

AnthropicDoRequest ==
    /\ wire.pc = "building"
    /\ wire' = Sent("anthropic", AnthropicMessages(wire.messages, Len(wire.messages)))
    /\ UNCHANGED <<chats, buckets, req, eng, title, hlog, elog, tlog, adp, lastCall, budget, crashed, faults, broker>>

OpenAIMessagesCall ==
    /\ wire.pc = "building"
    /\ wire' = Sent("openai", openAIMessages(wire.messages, Len(wire.messages)))
    /\ UNCHANGED <<chats, buckets, req, eng, title, hlog, elog, tlog, adp, lastCall, budget, crashed, faults, broker>>

OpenRouterDoRequest ==
    /\ wire.pc = "building"
    /\ wire' = Sent("openrouter", OpenRouterMessages(wire.messages))
    /\ UNCHANGED <<chats, buckets, req, eng, title, hlog, elog, tlog, adp, lastCall, budget, crashed, faults, broker>>

OllamaMessagesCall ==
    /\ wire.pc = "building"
    /\ wire' = Sent("ollama", ollamaMessages(wire.messages, Len(wire.messages)))
    /\ UNCHANGED <<chats, buckets, req, eng, title, hlog, elog, tlog, adp, lastCall, budget, crashed, faults, broker>>

(***************************************************************************)
(* The SSE server: sessions, and Main.Shutdown                             *)
(***************************************************************************)
\* time.Second*5, in seconds
ShutdownTimeout == 5

\* the message_id query values of an SSE request: none, or a message's id
QueryMessageIDs == {NoID, FormatID(1, NewUUID("ai", "r1"))}

\* the ids of the placeholders that the answers to POST /chats have named
AnsweredMessageIDs == {req[r].aiMsgID : r \in {x \in Requests : req[x].pc = "done"}} \ {NoID}

\* OnSession: the topics of a session
SessionTopics(messageID) ==
    {DefaultTopic, chatsSSETopic} \cup
    (IF messageID # NoID THEN {messageIDTopic(messageID)} ELSE {})

closeChat == Event("closeChat", DefaultTopic, PlainData("bye"))

\* HandleSSE: a browser opens an SSE connection; sseSrv.ServeHTTP subscribes
\* the session, which a server that was shut down refuses
HandleSSE(c) ==
    /\ broker.sessions[c].state = "none"
    /\ \E messageID \in QueryMessageIDs \cup AnsweredMessageIDs :
        broker' = [broker EXCEPT !.sessions[c] =
                      IF broker.pc = "closed"
                      THEN [@ EXCEPT !.state = "refused"]
                      ELSE [@ EXCEPT !.state = "open", !.topics = SessionTopics(messageID)]]
    /\ UNCHANGED <<chats, buckets, req, eng, title, hlog, elog, tlog, adp, wire, lastCall, budget, crashed, faults>>

\* the browser closes its connection
ClientDisconnect(c) ==
    /\ broker.sessions[c].state = "open"
    /\ broker' = [broker EXCEPT !.sessions[c].state = "gone"]
    /\ UNCHANGED <<chats, buckets, req, eng, title, hlog, elog, tlog, adp, wire, lastCall, budget, crashed, faults>>

\* Main.Shutdown, first half: closeChat is published, its error ignored
ShutdownPublish ==
    /\ broker.pc = "serving"
    /\ broker' = [broker EXCEPT !.pc = "published",
                                 !.sessions = Deliver(@, closeChat, {DefaultTopic})]
    /\ UNCHANGED <<chats, buckets, req, eng, title, hlog, elog, tlog, adp, wire, lastCall, budget, crashed, faults>>

\* Main.Shutdown, second half: sseSrv.Shutdown under a context that times
\* out after ShutdownTimeout.  The open sessions are closed; the call returns
\* nil when they have drained in time, the context's error otherwise.
ShutdownServer ==
    /\ broker.pc = "published"
    /\ LET open == {c \in Clients : broker.sessions[c].state = "open"}
       IN  \E waited \in (IF open = {} THEN {0} ELSE {0, 1, ShutdownTimeout}) :
               broker' = [broker EXCEPT
                  !.pc = "closed",
                  !.waited = waited,
                  !.result = IF waited < ShutdownTimeout THEN "nil"
                             ELSE "context deadline exceeded",
                  !.sessions = [c \in Clients |->
                                   IF c \in open THEN [@[c] EXCEPT !.state = "closed"]
                                   ELSE @[c]]]
    /\ UNCHANGED <<chats, buckets, req, eng, title, hlog, elog, tlog, adp, wire, lastCall, budget, crashed, faults>>

(***************************************************************************)
(* Specification                                                           *)
(***************************************************************************)
Next ==
    \E r \in Requests :
        \/ HandleChats(r)
        \/ NewChatDivs(r)
        \/ NewChatPublish(r)
        \/ ContinueChatRead(r)
        \/ ContinueChatRepair(r)
        \/ AddUserMessage(r)
        \/ AddAssistantMessage(r)
        \/ SpawnTasks(r)
        \/ RenderAnswer(r)
        \/ EngineStart(r)
        \/ EnginePanic(r)
        \/ EngineDelta(r)
        \/ EnginePublish(r)
        \/ EngineClose(r)
        \/ EngineTool(r)

\* Handlers and Engine tasks; the title tasks are spawned and not scheduled.
Spec == Init /\ [][Next]_vars

\* One request on its own: its handler and its Engine task, with deltas
\* enough for a text, a tool call and a second text.  continueChat finds
\* nothing to repair, as no message was stored before.
NextTurn ==
    \E r \in {"r1"} :
        \/ HandleChats(r)
        \/ NewChatDivs(r)
        \/ NewChatPublish(r)
        \/ ContinueChatRead(r)
        \/ AddUserMessage(r)
        \/ AddAssistantMessage(r)
        \/ SpawnTasks(r)
        \/ RenderAnswer(r)
        \/ EngineStart(r)
        \/ EnginePanic(r)
        \/ EngineDelta(r)
        \/ EnginePublish(r)
        \/ EngineClose(r)
        \/ EngineTool(r)

InitTurn == Boot(MaxTurnDeltas)
SpecTurn == InitTurn /\ [][NextTurn]_vars

\* Two requests, of which the first has its Engine task scheduled: the
\* handler of the second runs beside that task and can add to, and repair,
\* the chat the task works on; the Engine task of the second is spawned and
\* not scheduled.
NextPair ==
    \/ \E r \in Requests :
          \/ HandleChats(r)
          \/ NewChatDivs(r)
          \/ NewChatPublish(r)
          \/ ContinueChatRead(r)
          \/ ContinueChatRepair(r)
          \/ AddUserMessage(r)
          \/ AddAssistantMessage(r)
          \/ SpawnTasks(r)
          \/ RenderAnswer(r)
    \/ EngineStart("r1")
    \/ EnginePanic("r1")
    \/ EngineDelta("r1")
    \/ EnginePublish("r1")
    \/ EngineClose("r1")
    \/ EngineTool("r1")

InitPair == Boot(MaxPairDeltas)
SpecPair == InitPair /\ [][NextPair]_vars

\* The same, with the Engine goroutine scheduled: a step it can take is
\* taken in the end.  The provider's streams are finite and, the deltas being
\* bounded, one of them ends or fails without a CallTool.
EngineStep ==
    \/ EngineStart("r1")
    \/ EnginePanic("r1")
    \/ EngineDelta("r1")
    \/ EnginePublish("r1")
    \/ EngineClose("r1")
    \/ EngineTool("r1")
SpecTurnFair == SpecTurn /\ WF_vars(EngineStep)

\* main returns, which ends the process and every goroutine in it: when
\* ListenAndServe fails, or after a signal once srv.Shutdown has returned or
\* timed out.  srv.Shutdown starts the hook that calls Main.Shutdown and
\* does not wait for it, so the exit can come before, during or after
\* Main.Shutdown.
ProcessExit ==
    /\ ~crashed
    /\ crashed' = TRUE
    /\ UNCHANGED <<chats, buckets, req, eng, title, hlog, elog, tlog, adp, wire, broker, lastCall, budget, faults>>

NextLive ==
    \/ \E r \in Requests :
          \/ HandleChats(r)
          \/ NewChatDivs(r)
          \/ NewChatPublish(r)
          \/ ContinueChatRead(r)
          \/ AddUserMessage(r)
          \/ AddAssistantMessage(r)
          \/ SpawnTasks(r)
          \/ RenderAnswer(r)
          \/ EngineStart(r)
          \/ EnginePanic(r)
          \/ EngineDelta(r)
          \/ EngineClose(r)
    \/ HandleSSE("c1")

\* Handlers and Engine tasks with a browser that opens an SSE connection.
InitLive == Boot(MaxLiveDeltas)
SpecLive == InitLive /\ [][NextLive]_vars

NextExit ==
    \/ NextTurn
    \/ ShutdownPublish
    \/ ShutdownServer
    \/ ProcessExit

\* One request with its Engine task, and the shutdown of the process.
SpecExit == InitTurn /\ [][NextExit]_vars

NextStore ==
    \/ ClientAddChat
    \/ ClientAddMessage
    \/ ClientUpdateMessage
    \/ ClientUpdateChat

\* A client that calls the Store methods directly, in any order.
SpecStore == Init /\ [][NextStore]_vars

NextAdapter ==
    \/ AdapterChat
    \/ AnthropicRead
    \/ OpenAIRecv
    \/ OpenRouterRead
    \/ OllamaCallback

\* One call of one adapter's Chat, the iterator run to its end by a consumer
\* that takes every content.
SpecAdapter == Init /\ [][NextAdapter]_vars

NextConsumer ==
    \/ ConsumerChat
    \/ AnthropicRead
    \/ OpenAIRecv
    \/ OpenRouterRead
    \/ OllamaCallback

\* One call of one adapter's Chat, the iterator run by a consumer that stops
\* early.
SpecConsumer == Init /\ [][NextConsumer]_vars

NextWire ==
    \/ HistoryAppend
    \/ AnthropicDoRequest
    \/ OpenAIMessagesCall
    \/ OpenRouterDoRequest
    \/ OllamaMessagesCall

\* A history handed to one adapter and translated for the wire.
SpecWire == Init /\ [][NextWire]_vars

NextShutdown ==
    \/ \E c \in Clients : HandleSSE(c)
    \/ \E c \in Clients : ClientDisconnect(c)
    \/ ShutdownPublish
    \/ ShutdownServer

\* Browsers open and close SSE connections while Main.Shutdown runs.
SpecShutdown == Init /\ [][NextShutdown]_vars

NextTitle ==
    \E r \in Requests :
        \/ HandleChats(r)
        \/ NewChatDivs(r)
        \/ NewChatPublish(r)
        \/ ContinueChatRead(r)
        \/ AddUserMessage(r)
        \/ AddAssistantMessage(r)
        \/ SpawnTasks(r)
        \/ RenderAnswer(r)
        \/ TitleGenerate(r)
        \/ TitleDivs(r)
        \/ TitlePublish(r)

\* Handlers and title tasks; the Engine tasks are spawned and not scheduled,
\* so no stored message ends in a CallTool and continueChat finds nothing to
\* repair.
SpecTitle == Init /\ [][NextTitle]_vars

\* One request with its Engine task and its title task: for a new chat the
\* two tasks run concurrently after the handler has spawned them.
NextNewChat ==
    \/ NextTurn
    \/ TitleGenerate("r1")
    \/ TitleDivs("r1")
    \/ TitlePublish("r1")

SpecNewChat == InitTurn /\ [][NextNewChat]_vars

(***************************************************************************)
(* Properties                                                              *)
(***************************************************************************)
IsUpdate(x) == x.op = "UpdateMessage"
IsAdd(x) == x.op = "AddMessage"
IsChat(x) == x.op = "Chat"
IsYield(x) == x.op = "Yield"
IsCallToolReturn(x) == x.op = "callTool"
IsServerCall(x) == x.op = "ServerCallTool"
IsRendered(x) == x.op = "Publish" /\ x.event.type = "messages" /\ x.event.data.kind = "html"
IsClose(x) == x.op = "Publish" /\ x.event.type = "closeMessage"
HasType(contents, j, type) == j \in 1..Len(contents) /\ contents[j].Type = type
\* the entries a step appended to a log
NewEntries(old, new) == {new[i] : i \in (Len(old) + 1)..Len(new)}
\* an Engine task that is between its start and its return, working on id
EngineRunning(e, id) == eng[e].pc \in {"stream", "publish", "tool", "close"} /\ eng[e].aiMsg.ID = id

\* C1: in an Engine task every published rendering of the working message
\* comes directly after a successful UpdateMessage of exactly the contents it
\* renders, on the topic of the message that was written; every content the
\* loop body consumed is followed by that UpdateMessage.
C1_PersistBeforePublish ==
    \A r \in Requests : \A i \in 1..Len(elog[r]) :
        /\ IsRendered(elog[r][i]) =>
              /\ i > 1
              /\ IsUpdate(elog[r][i - 1])
              /\ elog[r][i - 1].ok
              /\ elog[r][i].event.topic = messageIDTopic(elog[r][i - 1].msg.ID)
              /\ elog[r][i].event.data = RenderContents(elog[r][i - 1].msg.Contents)
        /\ (IsYield(elog[r][i]) /\ elog[r][i].msg.Contents[1].Type # ContentTypeToolResult) =>
              /\ i < Len(elog[r])
              /\ IsUpdate(elog[r][i + 1])

\* C1 witness: an Engine task published the renderings of two deltas.
C1_Witness ==
    \E r \in Requests : \E i, j \in 1..Len(elog[r]) :
        /\ i < j
        /\ IsRendered(elog[r][i]) /\ elog[r][i].ok /\ elog[r][i].event.data.md # <<>>
        /\ IsRendered(elog[r][j]) /\ elog[r][j].ok
        /\ elog[r][j].event.data # elog[r][i].event.data

\* C2 (as claimed): when an Engine task has finished because its stream ended,
\* the stored record of its message does not end in a CallTool.
C2_CompletedNeverEndsInCallTool ==
    \A r \in Requests :
        (eng[r].pc = "done" /\ eng[r].exit = "end") =>
            \A m \in buckets[eng[r].chatID].recs :
                (m.ID = eng[r].aiMsg.ID /\ m.Contents # <<>>) =>
                    Last(m.Contents).Type # ContentTypeCallTool

\* every ToolResult directly follows a CallTool with the same call id
WellPaired(contents) ==
    \A j \in 1..Len(contents) :
        contents[j].Type = ContentTypeToolResult =>
            /\ HasType(contents, j - 1, ContentTypeCallTool)
            /\ contents[j - 1].CallToolID = contents[j].CallToolID

\* C3: in every message an Engine task or continueChat writes, and so in every
\* stored message, each ToolResult directly follows a CallTool with its call id.
C3_ToolResultFollowsItsCall ==
    /\ \A r \in Requests :
          /\ \A i \in 1..Len(elog[r]) : IsUpdate(elog[r][i]) => WellPaired(elog[r][i].msg.Contents)
          /\ \A i \in 1..Len(hlog[r]) : IsUpdate(hlog[r][i]) => WellPaired(hlog[r][i].msg.Contents)
    /\ \A c \in DOMAIN buckets : \A m \in buckets[c].recs : WellPaired(m.Contents)

\* C3 witness: an Engine task stored a message that holds a ToolResult.
C3_Witness ==
    \E r \in Requests : \E i \in 1..Len(elog[r]) :
        /\ IsUpdate(elog[r][i]) /\ elog[r][i].ok
        /\ \E j \in 1..Len(elog[r][i].msg.Contents) :
              elog[r][i].msg.Contents[j].Type = ContentTypeToolResult

\* C4: a handler that found the last stored message ending in a CallTool calls
\* that tool, stores the message with a ToolResult of the same call id and
\* failed = ~success appended, and only then adds the user message; when the
\* store refuses the repair the request ends with no message added and no
\* Engine task.
C4_RepairBeforeUserMessage ==
    \A r \in Requests :
        LET log == hlog[r]
            upds == {i \in 1..Len(log) : IsUpdate(log[i])}
            adds == {i \in 1..Len(log) : IsAdd(log[i])}
        IN  /\ (req[r].lastMessage # NoMessage /\ adds # {}) =>
                  \E i \in upds : log[i].ok /\ \A j \in adds : i < j
            /\ \A i \in upds :
                  LET cs == log[i].msg.Contents
                      n == Len(cs)
                  IN  /\ i > 1 /\ IsCallToolReturn(log[i - 1])
                      /\ HasType(cs, n, ContentTypeToolResult)
                      /\ HasType(cs, n - 1, ContentTypeCallTool)
                      /\ cs[n].CallToolID = cs[n - 1].CallToolID
                      /\ cs[n - 1].ToolName = log[i - 1].tool
                      /\ cs[n - 1].ToolInput = log[i - 1].input
                      /\ cs[n].ToolResult = log[i - 1].res
                      /\ cs[n].CallToolFailed = ~log[i - 1].ok
                      /\ log[i].msg.Role = RoleAssistant
                      /\ ~log[i].ok =>
                            /\ req[r].pc = "done" /\ req[r].status = 500
                            /\ adds = {}
                            /\ req[r].userMsgID = NoID /\ req[r].aiMsgID = NoID
                            /\ eng[r].pc = "idle"

\* C4 witness: a handler stored a repair and then added its user message.
C4_Witness ==
    \E r \in Requests : \E i, j \in 1..Len(hlog[r]) :
        /\ i < j
        /\ IsUpdate(hlog[r][i]) /\ hlog[r][i].ok
        /\ IsAdd(hlog[r][j]) /\ hlog[r][j].ok /\ hlog[r][j].msg.Role = RoleUser

\* C5 (as claimed): no step calls UpdateMessage on the id of a message that
\* another, still running Engine task is working on.
C5_SoleWriter ==
    [][\A r \in Requests :
          /\ \A x \in NewEntries(hlog[r], hlog'[r]) :
                IsUpdate(x) => \A e \in Requests : ~EngineRunning(e, x.msg.ID)
          /\ \A x \in NewEntries(elog[r], elog'[r]) :
                IsUpdate(x) => \A e \in Requests \ {r} : ~EngineRunning(e, x.msg.ID)]_vars

\* the last UpdateMessage of a log before position i (0 if there is none)
LastUpdateBefore(log, i) ==
    LET js == {j \in 1..(i - 1) : IsUpdate(log[j])}
    IN  IF js = {} THEN 0 ELSE CHOOSE j \in js : \A k \in js : k <= j

\* C6: every return of callTool in an Engine task, whatever its outcome, is
\* followed by the next llm.Chat, on a history whose last message is the
\* message last stored plus exactly one ToolResult, which carries callTool's
\* payload, the call id of the CallTool before it and failed = ~success.
C6_ToolNeverFatal ==
    \A r \in Requests : \A i \in 1..Len(elog[r]) :
        IsCallToolReturn(elog[r][i]) =>
            /\ i < Len(elog[r])
            /\ IsChat(elog[r][i + 1])
            /\ LET cs == Last(elog[r][i + 1].history).Contents
                   n == Len(cs)
                   j == LastUpdateBefore(elog[r], i)
               IN  /\ HasType(cs, n, ContentTypeToolResult)
                   /\ HasType(cs, n - 1, ContentTypeCallTool)
                   /\ cs[n].ToolResult = elog[r][i].res
                   /\ cs[n].CallToolFailed = ~elog[r][i].ok
                   /\ cs[n].CallToolID = cs[n - 1].CallToolID
                   /\ cs[n - 1].ToolName = elog[r][i].tool
                   /\ j > 0
                   /\ elog[r][j].msg.Contents = SubSeq(cs, 1, n - 1)
                   /\ Last(elog[r][i + 1].history).ID = elog[r][j].msg.ID

\* C6 witness: a tool server failed or reported an error, and the Engine went
\* on to its next stream.
C6_Witness ==
    \E r \in Requests : \E i \in 1..Len(elog[r]) :
        /\ IsCallToolReturn(elog[r][i]) /\ ~elog[r][i].ok
        /\ elog[r][i].tool \in toolsMap
        /\ eng[r].pc = "stream" /\ eng[r].rounds = 2

\* the callTool returns for a tool that is not in the directory, with the
\* entry logged before each
UnknownToolReturns(log) ==
    {i \in 1..Len(log) : IsCallToolReturn(log[i]) /\ log[i].tool \notin toolsMap}

\* C7 (as claimed): callTool on an unknown name returns success = false and a
\* JSON object with a non-empty "error" member, and calls no tool server.
C7_UnknownToolErrorObject ==
    \A r \in Requests : \A log \in {elog[r], hlog[r]} : \A i \in UnknownToolReturns(log) :
        /\ ~log[i].ok
        /\ log[i].res.kind = "object" /\ log[i].res.error # ""
        /\ (i > 1 => ~IsServerCall(log[i - 1]))

\* the first llm.Chat of a log after position i (0 if there is none)
NextChatAfter(log, i) ==
    LET ks == {k \in (i + 1)..Len(log) : IsChat(log[k])}
    IN  IF ks = {} THEN 0 ELSE CHOOSE k \in ks : \A l \in ks : k <= l

\* C8: when the provider yields a CallTool whose input is not JSON, the
\* UpdateMessage that follows writes the CallTool with input {}; unless a
\* store, render or publish failure ends the turn, the Engine calls no tool
\* and opens the next stream on a history ending in a failed ToolResult whose
\* text is "tool input <raw> is not valid json".
C8_BadToolInput ==
    \A r \in Requests : \A i \in 1..Len(elog[r]) :
        LET log == elog[r]
            c == log[i].msg.Contents[1]
            k == NextChatAfter(log, i)
        IN  (IsYield(log[i]) /\ c.Type = ContentTypeCallTool /\ ~RawMarshalOK(c.ToolInput)) =>
                /\ i < Len(log) /\ IsUpdate(log[i + 1])
                /\ Last(log[i + 1].msg.Contents) = [c EXCEPT !.ToolInput = EmptyObjectRaw]
                /\ MessageMarshalOK(log[i + 1].msg)
                /\ (k = 0) => eng[r].pc \in {"publish", "tool", "close", "done"}
                /\ (k # 0) =>
                      /\ k = i + 3
                      /\ LET cs == Last(log[k].history).Contents
                         IN  /\ HasType(cs, Len(cs), ContentTypeToolResult)
                             /\ cs[Len(cs)].CallToolFailed
                             /\ cs[Len(cs)].CallToolID = c.CallToolID
                             /\ cs[Len(cs)].ToolResult =
                                   JArray(<<McpText("tool input " \o c.ToolInput \o " is not valid json")>>)

\* C8 witness: after a CallTool with the input "notjson" the Engine opened its
\* next stream.
C8_Witness ==
    \E r \in Requests : \E i \in 1..Len(elog[r]) :
        /\ IsYield(elog[r][i])
        /\ elog[r][i].msg.Contents[1].ToolInput = "notjson"
        /\ NextChatAfter(elog[r], i) # 0

\* C9 (as claimed): when an Engine task opens a stream after a tool was called,
\* it has already stored the message that ends in the tool's result.
C9_ToolResultStoredBeforeNextStream ==
    \A r \in Requests : \A k \in 2..Len(elog[r]) :
        (IsChat(elog[r][k]) /\ IsCallToolReturn(elog[r][k - 1])) =>
            \E j \in 1..(k - 1) :
                /\ IsUpdate(elog[r][j]) /\ elog[r][j].ok
                /\ elog[r][j].msg = Last(elog[r][k].history)

\* the Engine task of r has left Main.chat: it returned, or it panicked and
\* its deferred function has run
EngineLeft(r) == eng[r].pc \in {"panic", "done"}

\* C10: an Engine task that has left Main.chat published closeMessage "bye"
\* on the default topic exactly once, as the last call it made; a task that
\* is still in it has not published it.
C10_CloseOnceAndLast ==
    \A r \in Requests :
        LET log == elog[r]
            closes == {i \in 1..Len(log) : IsClose(log[i])}
        IN  /\ EngineLeft(r) =>
                  /\ Cardinality(closes) = 1
                  /\ closes = {Len(log)}
                  /\ Last(log).event = Event("closeMessage", DefaultTopic, PlainData("bye"))
            /\ ~EngineLeft(r) => closes = {}

\* C10 witness: an Engine task returned because a publish failed, after it had
\* stored a delta.
C10_Witness ==
    \E r \in Requests :
        /\ eng[r].pc = "done" /\ eng[r].exit = "publish_error"
        /\ \E i \in 1..Len(elog[r]) : IsUpdate(elog[r][i]) /\ elog[r][i].ok

\* the Engine's returns that an error caused
FailureExits == {"provider_error", "store_error", "render_error", "publish_error"}

\* C11 (as claimed): an Engine task that returned because of a provider, store,
\* render or publish error published an error text as a 'messages' event on
\* the topic of its message, as the last call before the close, and made no
\* store write after it.
C11_FailurePublishesErrorText ==
    \A r \in Requests :
        (eng[r].pc = "done" /\ eng[r].exit \in FailureExits) =>
            LET log == elog[r]
                n == Len(log)
            IN  /\ n >= 2
                /\ log[n - 1].op = "Publish"
                /\ log[n - 1].event.type = "messages"
                /\ log[n - 1].event.topic = messageIDTopic(eng[r].aiMsg.ID)
                /\ log[n - 1].event.data.kind = "plain"
                /\ log[n - 1].event.data.text # ""

\* the contents the provider handed to an Engine task, in arrival order
Yielded(log) ==
    LET ys == SelectSeq(log, IsYield)
    IN  [i \in 1..Len(ys) |-> ys[i].msg.Contents[1]]

\* the texts of the first n contents of cs, concatenated
RECURSIVE ConcatText(_, _)
ConcatText(cs, n) == IF n = 0 THEN "" ELSE ConcatText(cs, n - 1) \o cs[n].Text

\* the Engine task of r started on an empty placeholder, got only Text deltas
\* (at least one) and returned at the end of its stream
TextOnlyTurn(r) ==
    /\ eng[r].pc = "done" /\ eng[r].exit = "end"
    /\ Len(Yielded(elog[r])) >= 1
    /\ \A i \in 1..Len(Yielded(elog[r])) : Yielded(elog[r])[i].Type = ContentTypeText
    /\ IsChat(elog[r][1]) /\ Last(elog[r][1].history).Contents = <<>>

\* no other Engine task works on the message of r's Engine task
OwnMessage(r) == \A e \in Requests \ {r} : eng[e].aiMsg.ID # eng[r].aiMsg.ID

\* C12: after a turn of Text deltas d1..dn only, the Engine task has published
\* exactly n renderings on the topic of its message, the i-th of the single
\* Text d1+...+di, then one closeMessage as its last call; the stored message
\* holds exactly the one Text d1+...+dn.
C12_TextOnlyTurn ==
    \A r \in Requests :
        TextOnlyTurn(r) =>
            LET log == elog[r]
                ys == Yielded(log)
                n == Len(ys)
                pubs == SelectSeq(log, LAMBDA x : x.op = "Publish" /\ x.event.type = "messages")
            IN  /\ Len(pubs) = n
                /\ \A i \in 1..n :
                      /\ pubs[i].event.topic = messageIDTopic(eng[r].aiMsg.ID)
                      /\ pubs[i].event.data = RenderContents(<<TextContent(ConcatText(ys, i))>>)
                /\ IsClose(Last(log))
                /\ Len(SelectSeq(log, IsClose)) = 1
                /\ OwnMessage(r) =>
                      /\ \E m \in buckets[eng[r].chatID].recs : m.ID = eng[r].aiMsg.ID
                      /\ \A m \in buckets[eng[r].chatID].recs :
                            m.ID = eng[r].aiMsg.ID =>
                                m.Contents = <<TextContent(ConcatText(ys, n))>>

\* C12 witness: a turn of the two deltas "Hi " and "there" ended with
\* "Hi there" stored.
C12_Witness ==
    \E r \in Requests :
        /\ TextOnlyTurn(r) /\ OwnMessage(r)
        /\ Len(Yielded(elog[r])) = 2
        /\ \E m \in buckets[eng[r].chatID].recs :
              m.ID = eng[r].aiMsg.ID /\ m.Contents = <<TextContent("Hi there")>>

\* the Engine task of r started on an empty placeholder, got a text, a tool
\* call and, after the tool succeeded, a second text, and returned at the end
\* of the second stream
RoundTrip(r) ==
    LET ys == Yielded(elog[r])
        rets == SelectSeq(elog[r], IsCallToolReturn)
    IN  /\ eng[r].pc = "done" /\ eng[r].exit = "end"
        /\ IsChat(elog[r][1]) /\ Last(elog[r][1].history).Contents = <<>>
        /\ Len(ys) = 3
        /\ ys[1].Type = ContentTypeText
        /\ ys[2].Type = ContentTypeCallTool
        /\ ys[3].Type = ContentTypeText
        /\ Len(rets) = 1 /\ rets[1].ok

\* C13: after a turn of text T1, tool call c, a successful tool result r, and
\* text T2, the stored message is Text(T1), CallTool(c), ToolResult(call id of
\* c, r, not failed), Text(T2), and the second llm.Chat got a history whose
\* last message holds the first three of these.
C13_ToolRoundTrip ==
    \A r \in Requests :
        RoundTrip(r) =>
            LET ys == Yielded(elog[r])
                ret == SelectSeq(elog[r], IsCallToolReturn)[1]
                result == [Type |-> ContentTypeToolResult, Text |-> "", ToolName |-> "",
                           ToolInput |-> NilRaw, ToolResult |-> ret.res,
                           CallToolID |-> ys[2].CallToolID, CallToolFailed |-> FALSE]
                chatCalls == SelectSeq(elog[r], IsChat)
            IN  /\ ret.tool = ys[2].ToolName /\ ret.input = ys[2].ToolInput
                /\ Len(chatCalls) = 2
                /\ Last(chatCalls[2].history).ID = eng[r].aiMsg.ID
                /\ Last(chatCalls[2].history).Contents = <<ys[1], ys[2], result>>
                /\ \E m \in buckets[eng[r].chatID].recs : m.ID = eng[r].aiMsg.ID
                /\ \A m \in buckets[eng[r].chatID].recs :
                      m.ID = eng[r].aiMsg.ID => m.Contents = <<ys[1], ys[2], result, ys[3]>>

\* C13 witness: a turn with a call of the tool "clock" between two texts has
\* ended, and four contents are stored.
C13_Witness ==
    \E r \in Requests :
        /\ RoundTrip(r)
        /\ Yielded(elog[r])[2].ToolName = "clock"
        /\ \E m \in buckets[eng[r].chatID].recs :
              m.ID = eng[r].aiMsg.ID /\ Len(m.Contents) = 4

\* the records of a bucket whose ids AddChat or AddMessage assigned
Assigned(b) == {x \in b.recs : x.ID.seq \in 1..b.seq}

\* key order agrees with the order of the sequence prefixes, the order in
\* which the ids were assigned
SortsInInsertionOrder(b) ==
    \A x, y \in Assigned(b) : x.ID.seq < y.ID.seq => KeyLess(x.ID, y.ID)

\* C14 (as claimed): in the chats bucket and in every message bucket, the ids
\* that AddChat and AddMessage assigned sort bytewise in the order in which
\* they were assigned.
C14_IdsSortInInsertionOrder ==
    /\ SortsInInsertionOrder(chats)
    /\ \A c \in DOMAIN buckets : SortsInInsertionOrder(buckets[c])

\* every record of the chat's bucket has an id that AddMessage returned
OnlyAssignedIDs(c) == Assigned(buckets[c]) = buckets[c].recs

\* C15 (as claimed): in a chat that was only written under ids AddMessage
\* returned, a successful AddMessage adds its message at the end of what
\* Messages returns and a successful UpdateMessage replaces the message with
\* its id where it stands; so Messages returns one message per AddMessage, in
\* call order, each with the value last written.
C15_StoreRoundTrip ==
    [][\A c \in DOMAIN buckets :
          (OnlyAssignedIDs(c) /\ lastCall'.ok /\ lastCall'.chatID = c) =>
              LET before == StoreMessages(buckets, c)
                  after == StoreMessages(buckets', c)
              IN  /\ lastCall'.op = "AddMessage" =>
                        after = Append(before, [lastCall'.message EXCEPT !.ID = lastCall'.id])
                  /\ (lastCall'.op = "UpdateMessage"
                        /\ \E m \in buckets[c].recs : m.ID = lastCall'.message.ID) =>
                        /\ Len(after) = Len(before)
                        /\ \A i \in 1..Len(before) :
                              after[i] = IF before[i].ID = lastCall'.message.ID
                                         THEN lastCall'.message ELSE before[i]]_vars

\* C16: a successful UpdateChat leaves the message buckets and the chat
\* sequence alone; with an id that is not in the chats bucket it leaves the
\* chats bucket as it was, with a known id it replaces the record of that id
\* and no other.
C16_UpdateChatFrame ==
    [][(lastCall'.op = "UpdateChat" /\ lastCall'.ok) =>
          /\ buckets' = buckets
          /\ chats'.seq = chats.seq
          /\ IF \E c \in chats.recs : c.ID = lastCall'.chat.ID
             THEN /\ lastCall'.chat \in chats'.recs
                  /\ {c \in chats'.recs : c.ID # lastCall'.chat.ID}
                        = {c \in chats.recs : c.ID # lastCall'.chat.ID}
                  /\ Cardinality(chats'.recs) = Cardinality(chats.recs)
             ELSE chats' = chats]_vars

\* C16 witness: UpdateChat was called with an id that no chat has, while a
\* chat is stored, and returned without an error.
C16_Witness ==
    /\ lastCall.op = "UpdateChat" /\ lastCall.ok
    /\ chats.recs # {}
    /\ \A c \in chats.recs : c.ID # lastCall.chat.ID

\* C17 (as claimed): a successful UpdateMessage whose message id is not in the
\* chat's bucket leaves what Messages returns for that chat as it was.
C17_UpdateUnknownMessageIgnored ==
    [][(/\ lastCall'.op = "UpdateMessage" /\ lastCall'.ok
        /\ lastCall'.chatID \in DOMAIN buckets
        /\ \A m \in buckets[lastCall'.chatID].recs : m.ID # lastCall'.message.ID) =>
          StoreMessages(buckets', lastCall'.chatID) = StoreMessages(buckets, lastCall'.chatID)]_vars

\* C18: after an AddChat that returned an id without an error, Chats lists a
\* chat with that id, the chat has a message bucket, Messages on it is empty
\* and an AddMessage on it would return an id; the other buckets are as they
\* were.  After an AddChat that returned an error, the chats and the message
\* buckets are as they were.
C18_AddChatAtomic ==
    [][lastCall'.op = "AddChat" =>
          IF lastCall'.ok
          THEN /\ lastCall'.id # NoID
               /\ lastCall'.id \notin DOMAIN buckets
               /\ \E i \in 1..Len(StoreChats(chats')) : StoreChats(chats')[i].ID = lastCall'.id
               /\ Len(StoreChats(chats')) = Len(StoreChats(chats)) + 1
               /\ DOMAIN buckets' = DOMAIN buckets \cup {lastCall'.id}
               /\ StoreMessages(buckets', lastCall'.id) = <<>>
               /\ StoreAddMessage(buckets', lastCall'.id, ClientMessage).id # NoID
               /\ \A c \in DOMAIN buckets : buckets'[c] = buckets[c]
          ELSE /\ chats' = chats
               /\ buckets' = buckets]_vars

\* C18 witness: the second AddChat returned an id, and the chat has its bucket.
C18_Witness ==
    /\ lastCall.op = "AddChat" /\ lastCall.ok
    /\ lastCall.id.seq = 2
    /\ lastCall.id \in DOMAIN buckets

(***************************************************************************)
(* Tool-call assembly in the provider adapters                             *)
(***************************************************************************)
Assemblers == {"anthropic", "openai", "openrouter"}

\* the upstream event that opens a tool block with its name and call id
IsBlockStart(kind, ev) ==
    IF kind = "anthropic"
    THEN ev.type = "content_block_start" /\ ev.blockType = "tool_use"
    ELSE ev.type = "chunk" /\ ev.hasCall /\ ev.name # "" /\ ev.text = "" /\ ev.partial = ""

\* an upstream event that carries one argument fragment of the open block
IsFragment(kind, ev) ==
    IF kind = "anthropic"
    THEN ev.type = "content_block_delta" /\ ev.partial # ""
    ELSE ev.type = "chunk" /\ ev.hasCall /\ ev.name = "" /\ ev.text = ""

\* the upstream event that ends the block
IsBlockEnd(kind, ev) ==
    IF kind = "anthropic" THEN ev.type = "content_block_stop" ELSE ev.type = "end"

\* the fragments of events 2..n of the stream, concatenated
RECURSIVE ConcatFragments(_, _)
ConcatFragments(received, n) ==
    IF n < 2 THEN "" ELSE ConcatFragments(received, n - 1) \o received[n].partial

\* the stream so far is a block start and k argument fragments
OpenBlock(a, k) ==
    /\ a.kind \in Assemblers
    /\ Len(a.received) = k + 1
    /\ IsBlockStart(a.kind, a.received[1])
    /\ \A i \in 2..(k + 1) : IsFragment(a.kind, a.received[i])

\* the stream is a block start, k argument fragments and the block end
ClosedBlock(a, k) ==
    /\ a.kind \in Assemblers
    /\ Len(a.received) = k + 2
    /\ IsBlockStart(a.kind, a.received[1])
    /\ \A i \in 2..(k + 1) : IsFragment(a.kind, a.received[i])
    /\ IsBlockEnd(a.kind, a.received[k + 2])

\* the call id an adapter gives to the block: the block's own, with the time
\* in milliseconds as a suffix where the adapter adds it
AssembledID(a, suffixed) ==
    IF suffixed /\ a.kind = "openrouter"
    THEN a.received[1].id \o "-" \o ToString(a.now)
    ELSE a.received[1].id

\* nothing is yielded while the block is open; once a block of at least one
\* fragment is ended, exactly the assembled call has been yielded
Assembly(suffixed) ==
    \A k \in 0..MaxEvents :
        /\ OpenBlock(adp, k) => adp.out = <<>>
        /\ (k >= 1 /\ ClosedBlock(adp, k)) =>
              adp.out = <<StreamItem("content",
                                     CallToolContent(AssembledID(adp, suffixed),
                                                     adp.received[1].name,
                                                     ConcatFragments(adp.received, k + 1)),
                                     "")>>

\* C19 as stated: for each of Anthropic, OpenAI and OpenRouter, a stream of one
\* tool block (a start with name and call id, argument fragments f1..fk, the
\* block end) makes the adapter yield exactly one CallTool, after the block
\* end, with the name and the call id of the block start and with f1+...+fk
\* as tool_input; no fragment is yielded as Text.
C19_AssemblyAsClaimed == Assembly(FALSE)

\* C19, amended: as above, but the call id is the block start's for Anthropic
\* and OpenAI only; OpenRouter yields the block start's id followed by "-" and
\* the time in milliseconds at which the first tool-call chunk was handled.
C19_Assembly == Assembly(TRUE)

\* OpenRouter has handled a block of two fragments and yielded the call with
\* a suffixed id and the whole object
C19_Witness ==
    /\ adp.kind = "openrouter"
    /\ adp.pc = "done"
    /\ ClosedBlock(adp, 2)
    /\ Len(adp.out) = 1
    /\ adp.out[1].content.ToolInput = Fragments[1] \o Fragments[2]
    /\ adp.out[1].content.CallToolID = "t1-1001"

\* a tool call that carries no arguments: a block of no fragment for the
\* assembling adapters, a nil or empty argument map for Ollama
NoArguments(a) ==
    \/ ClosedBlock(a, 0)
    \/ /\ a.kind = "ollama"
       /\ a.received # <<>>
       /\ a.received[Len(a.received)].hasCall
       /\ a.received[Len(a.received)].arguments.entries = {}

\* C20 as stated: for every adapter, a tool call whose fragments concatenate
\* to the empty string, or which carries no arguments at all, is yielded with
\* tool_input equal to the empty JSON object {}.
C20_EmptyArgumentsSubstitution ==
    NoArguments(adp) =>
        /\ adp.out # <<>>
        /\ adp.out[Len(adp.out)].content.Type = ContentTypeCallTool
        /\ adp.out[Len(adp.out)].content.ToolInput = "{}"

(***************************************************************************)
(* More than one tool call in a turn                                       *)
(***************************************************************************)
\* the positions of the stream at which a tool call is opened: a chunk with a
\* call id, or an Ollama response with a tool call
CallStarts(a) ==
    {i \in 1..Len(a.received) :
        /\ a.received[i].hasCall
        /\ (a.kind = "ollama" \/ a.received[i].id # "")}

\* the arguments of the call opened at position i, as the upstream sent them:
\* its own fragment and those of the chunks up to the next call
RECURSIVE CallFragments(_, _, _)
CallFragments(a, i, n) ==
    IF n < i THEN ""
    ELSE IF n > i /\ (~a.received[n].hasCall \/ n \in CallStarts(a)) THEN CallFragments(a, i, n - 1)
    ELSE CallFragments(a, i, n - 1) \o a.received[n].partial

\* the end of the arguments of the call opened at i: the position before the
\* next call, or the end of the stream
LastOfCall(a, i) ==
    LET later == {j \in CallStarts(a) : j > i}
    IN  IF later = {} THEN Len(a.received)
        ELSE (CHOOSE j \in later : \A k \in later : j <= k) - 1

CallTools(out) == SelectSeq(out, LAMBDA it : it.kind = "content" /\ it.content.Type = ContentTypeCallTool)

\* C21 as stated: when the upstream delivers more than one tool call in a
\* turn, in separate delta events, the OpenAI, OpenRouter and Ollama adapters
\* yield a single CallTool, with the first call's name and, for the two
\* assembling adapters, the concatenation of the first call's fragments only.
C21_OnlyFirstCallHonored ==
    (/\ adp.kind \in {"openai", "openrouter", "ollama"}
     /\ adp.pc = "done"
     /\ adp.received # <<>>
     /\ adp.received[Len(adp.received)].type = "end"
     /\ Cardinality(CallStarts(adp)) > 1) =>
        LET first == CHOOSE i \in CallStarts(adp) : \A j \in CallStarts(adp) : i <= j
            calls == CallTools(adp.out)
        IN  /\ Len(calls) = 1
            /\ calls[1].content.ToolName = adp.received[first].name
            /\ adp.kind # "ollama" =>
                  LET sent == CallFragments(adp, first, LastOfCall(adp, first))
                  IN  calls[1].content.ToolInput = IF sent = "" THEN "{}" ELSE sent

(***************************************************************************)
(* The shape of a Chat sequence                                            *)
(***************************************************************************)
Errors(out) == SelectSeq(out, LAMBDA it : it.kind = "error")

\* the context of the call was cancelled: the request or a read of the
\* stream failed with context.Canceled
Cancelled(a) == a.received # <<>> /\ a.received[Len(a.received)].type = "cancel"

\* the upstream has nothing more to deliver
UpstreamEnded(a) ==
    /\ a.received # <<>>
    /\ a.received[Len(a.received)].type \in {"end", "message_stop", "error", "cancel"}

\* C22 as stated: every adapter's sequence ends when its upstream does, never
\* yields a ToolResult, and yields at most one error, after which nothing is
\* yielded; when the context is cancelled the sequence ends without an error.
C22_SequenceShape ==
    /\ UpstreamEnded(adp) => adp.pc = "done"
    /\ \A i \in 1..Len(adp.out) : adp.out[i].content.Type # ContentTypeToolResult
    /\ Len(Errors(adp.out)) <= 1
    /\ \A i \in 1..Len(adp.out) :
          adp.out[i].kind = "error" => (i = Len(adp.out) /\ adp.pc = "done")
    /\ Cancelled(adp) => (adp.pc = "done" /\ Errors(adp.out) = <<>>)

(***************************************************************************)
(* Canonical-to-wire translation                                           *)
(***************************************************************************)
\* the non-empty texts of a list of contents, in order
RECURSIVE TextsOf(_, _)
TextsOf(cs, n) ==
    IF n = 0 THEN <<>>
    ELSE TextsOf(cs, n - 1) \o
         (IF cs[n].Type = ContentTypeText /\ cs[n].Text # "" THEN <<cs[n].Text>> ELSE <<>>)

\* the non-empty texts of the assistant messages of a history, in order
RECURSIVE AssistantTexts(_, _)
AssistantTexts(messages, n) ==
    IF n = 0 THEN <<>>
    ELSE AssistantTexts(messages, n - 1) \o
         (IF messages[n].Role = RoleAssistant
          THEN TextsOf(messages[n].Contents, Len(messages[n].Contents))
          ELSE <<>>)

\* the texts of the text blocks of an Anthropic turn
RECURSIVE BlockTexts(_, _)
BlockTexts(blocks, n) ==
    IF n = 0 THEN <<>>
    ELSE BlockTexts(blocks, n - 1) \o (IF blocks[n].Type = "text" THEN <<blocks[n].Text>> ELSE <<>>)

\* the texts the assistant turns of a request carry, in order
RECURSIVE WireAssistantTexts(_, _)
WireAssistantTexts(msgs, n) ==
    IF n = 0 THEN <<>>
    ELSE WireAssistantTexts(msgs, n - 1) \o
         (IF msgs[n].Role # RoleAssistant THEN <<>>
          ELSE IF msgs[n].Blocks # <<>> THEN BlockTexts(msgs[n].Blocks, Len(msgs[n].Blocks))
          ELSE IF msgs[n].Content # "" THEN <<msgs[n].Content>>
          ELSE <<>>)

\* C23 as stated: for every adapter and every history it translates, the
\* non-empty Text contents of the assistant messages are carried by assistant
\* turns of the request, each of them and in history order, text-only
\* messages and text after the last ToolResult included.
C23_AssistantTextKept ==
    (wire.pc = "sent" /\ wire.err = "") =>
        WireAssistantTexts(wire.msgs, Len(wire.msgs)) =
            AssistantTexts(wire.messages, Len(wire.messages))

\* a tool call or a tool response, in a history or in a request
ToolEvent(op, role, id, name, input, parsed, content) ==
    [op |-> op, role |-> role, id |-> id, name |-> name, input |-> input,
     parsed |-> parsed, content |-> content]

\* the tool-call structure and the tool response a provider takes for a
\* content: Anthropic a tool_use block in an assistant turn and a tool_result
\* block in a user turn, OpenAI and OpenRouter a tool_calls entry and a "tool"
\* message, each with the call id and the input as text; Ollama the same two
\* with the input parsed and, unless withID, no call id
ExpectedEvent(kind, role, ct, withID) ==
    IF ct.Type = ContentTypeCallTool
    THEN IF kind = "ollama"
         THEN ToolEvent("call", role, IF withID THEN ct.CallToolID ELSE "", ct.ToolName, "",
                        UnmarshalArguments(ct.ToolInput), JNull)
         ELSE ToolEvent("call", role, ct.CallToolID, ct.ToolName, ct.ToolInput, NilArgs, JNull)
    ELSE ToolEvent("result", IF kind = "anthropic" THEN "user" ELSE "tool",
                   IF kind = "ollama" /\ ~withID THEN "" ELSE ct.CallToolID,
                   "", "", NilArgs, ct.ToolResult)

IsToolContent(ct) == ct.Type \in {ContentTypeCallTool, ContentTypeToolResult}

\* the tool events expected for the first n contents of a message
RECURSIVE ExpectedOfContents(_, _, _, _, _)
ExpectedOfContents(kind, role, cs, n, withID) ==
    IF n = 0 THEN <<>>
    ELSE ExpectedOfContents(kind, role, cs, n - 1, withID) \o
         (IF IsToolContent(cs[n]) THEN <<ExpectedEvent(kind, role, cs[n], withID)>> ELSE <<>>)

\* the tool events expected for the first n messages of a history
RECURSIVE ExpectedEvents(_, _, _, _)
ExpectedEvents(kind, messages, n, withID) ==
    IF n = 0 THEN <<>>
    ELSE ExpectedEvents(kind, messages, n - 1, withID) \o
         ExpectedOfContents(kind, messages[n].Role, messages[n].Contents,
                            Len(messages[n].Contents), withID)

\* whether each ToolResult of the first n contents comes directly after the
\* CallTool it answers, one flag per tool event
RECURSIVE FollowsCallOfContents(_, _)
FollowsCallOfContents(cs, n) ==
    IF n = 0 THEN <<>>
    ELSE FollowsCallOfContents(cs, n - 1) \o
         (IF ~IsToolContent(cs[n]) THEN <<>>
          ELSE <<cs[n].Type = ContentTypeToolResult /\ n > 1
                 /\ cs[n - 1].Type = ContentTypeCallTool
                 /\ cs[n - 1].CallToolID = cs[n].CallToolID>>)

RECURSIVE FollowsCall(_, _)
FollowsCall(messages, n) ==
    IF n = 0 THEN <<>>
    ELSE FollowsCall(messages, n - 1) \o
         FollowsCallOfContents(messages[n].Contents, Len(messages[n].Contents))

IsToolTurn(m) ==
    \/ m.Blocks # <<>> /\ m.Blocks[Len(m.Blocks)].Type \in {"tool_use", "tool_result"}
    \/ m.ToolCalls # <<>>
    \/ m.Role = "tool"

\* the tool event a turn of a request carries
WireEvent(m) ==
    IF m.Blocks # <<>>
    THEN LET b == m.Blocks[Len(m.Blocks)]
         IN  IF b.Type = "tool_use"
             THEN ToolEvent("call", m.Role, b.ID, b.Name, b.Input, NilArgs, JNull)
             ELSE ToolEvent("result", m.Role, b.ToolUseID, "", "", NilArgs, b.Content)
    ELSE IF m.ToolCalls # <<>>
    THEN ToolEvent("call", m.Role, m.ToolCalls[1].ID, m.ToolCalls[1].Name,
                   m.ToolCalls[1].Arguments, m.ToolCalls[1].Parsed, JNull)
    ELSE ToolEvent("result", m.Role, m.ToolCallID, "", "", NilArgs, m.ToolContent)

\* the positions of the tool turns of a request, in order
ToolTurns(msgs) ==
    LET RECURSIVE at(_)
        at(n) == IF n = 0 THEN <<>>
                 ELSE at(n - 1) \o (IF IsToolTurn(msgs[n]) THEN <<n>> ELSE <<>>)
    IN  at(Len(msgs))

\* the request carries the expected tool events in history order, and a tool
\* response that directly follows its call in the history directly follows
\* the turn of that call in the request
ToolsTranslated(withID) ==
    (wire.pc = "sent" /\ wire.err = "") =>
        LET turns == ToolTurns(wire.msgs)
            expected == ExpectedEvents(wire.kind, wire.messages, Len(wire.messages), withID)
            follows == FollowsCall(wire.messages, Len(wire.messages))
        IN  /\ [k \in 1..Len(turns) |-> WireEvent(wire.msgs[turns[k]])] = expected
            /\ \A k \in 1..Len(turns) :
                  (k <= Len(follows) /\ follows[k]) =>
                      /\ k > 1
                      /\ turns[k - 1] = turns[k] - 1

\* C24 as stated: for every adapter, each CallTool of the history is sent as
\* the provider's tool-call structure with its call id, name and input, and
\* each ToolResult as a tool response that references the same call id and
\* comes directly after the turn of its CallTool.
C24_ToolsCarryCallID == ToolsTranslated(TRUE)

\* C24, amended: as above for Anthropic, OpenAI and OpenRouter; Ollama's tool
\* call carries the name and the parsed input and its "tool" message the
\* result, neither of them a call id, the "tool" message still directly after
\* the turn of the call.
C24_ToolsTranslated == ToolsTranslated(FALSE)

\* Ollama has translated a user message and an assistant message of a call,
\* its result and a text
C24_Witness ==
    /\ wire.kind = "ollama"
    /\ wire.pc = "sent"
    /\ wire.err = ""
    /\ Len(wire.messages) = 2
    /\ Len(wire.messages[2].Contents) = 3
    /\ wire.messages[2].Contents[1].Type = ContentTypeCallTool
    /\ wire.messages[2].Contents[2].Type = ContentTypeToolResult
    /\ Len(wire.msgs) = 4
    /\ wire.msgs[2].ToolCalls[1].Parsed = TzArgs
    /\ wire.msgs[3].Role = "tool"
    /\ wire.msgs[3].ToolCallID = ""

(***************************************************************************)
(* Shutdown                                                                *)
(***************************************************************************)
GotCloseChat(session) == \E i \in 1..Len(session.events) : session.events[i] = closeChat

\* C25 as stated: Shutdown publishes closeChat ("bye") to every current
\* subscriber before it closes the broker, waits at most 5 seconds, returns no
\* error when there is no subscriber, and no subscriber's connection is closed
\* before closeChat was published to it.
C25_CloseChatBeforeClose ==
    /\ broker.pc # "closed" => \A c \in Clients : broker.sessions[c].state # "closed"
    /\ broker.pc = "closed" =>
          /\ broker.waited <= ShutdownTimeout
          /\ (\A c \in Clients : broker.sessions[c].state # "closed") => broker.result = "nil"
          /\ \A c \in Clients :
                broker.sessions[c].state = "closed" => GotCloseChat(broker.sessions[c])

(***************************************************************************)
(* HandleChats: rejected and accepted requests                             *)
(***************************************************************************)
\* the handler of request r ends in this step: it has written its response,
\* or it panicked and wrote none
Responds(r) == req[r].pc \notin {"done", "aborted"} /\ req'[r].pc \in {"done", "aborted"}

\* C26: a request that is not a POST is answered 405 and a POST with an empty
\* message 400, and in answering them the handler changes nothing in the
\* store, makes no store or publish call and starts neither an Engine task nor
\* a title task; the handler of a POST with a message ends with the answer
\* 200 when no call it makes fails.
C26_RejectedRequests ==
    [][\A r \in Requests :
          Responds(r) =>
             /\ req'[r].method # "POST" =>
                   /\ req'[r].status = 405
                   /\ UNCHANGED <<chats, buckets, hlog, eng, title, elog, tlog>>
             /\ (req'[r].method = "POST" /\ req'[r].msg = "") =>
                   /\ req'[r].status = 400
                   /\ UNCHANGED <<chats, buckets, hlog, eng, title, elog, tlog>>
             /\ (req'[r].method = "POST" /\ req'[r].msg # "" /\ faults' = faults) =>
                   (req'[r].pc = "done" /\ req'[r].status = 200)]_vars

\* of the two requests one was refused and started nothing, the other was
\* answered 200 and has its Engine task
C26_Witness ==
    /\ req["r1"].pc = "done" /\ req["r1"].status \in {400, 405}
    /\ req["r2"].pc = "done" /\ req["r2"].status = 200
    /\ eng["r1"].pc = "idle"
    /\ eng["r2"].pc # "idle"

\* the message of that id is among the stored messages of the chat
Stored(chatID, id) ==
    /\ id # NoID
    /\ \E i \in 1..Len(StoreMessages(buckets, chatID)) : StoreMessages(buckets, chatID)[i].ID = id

\* the Engine task, the title task of request r has been started
EngineStarted(r) == eng[r].pc # "idle"
TitleStarted(r) == title[r].pc # "idle"

\* C27 as stated: an Engine task is started only after the user message and
\* the assistant placeholder of its request have been added to the store, and
\* not at all when an AddMessage or the Messages read fails; a title task is
\* started with the Engine task of a request that created a chat, and for no
\* other request.
C27_SpawnAfterPersist ==
    \A r \in Requests :
        /\ EngineStarted(r) =>
              /\ Stored(req[r].chatID, req[r].userMsgID)
              /\ Stored(req[r].chatID, req[r].aiMsgID)
        /\ (\E i \in 1..Len(hlog[r]) :
                (IsAdd(hlog[r][i]) \/ hlog[r][i].op = "Messages") /\ ~hlog[r][i].ok) =>
              (~EngineStarted(r) /\ ~TitleStarted(r))
        /\ TitleStarted(r) <=> (EngineStarted(r) /\ req[r].isNewChat)

(***************************************************************************)
(* The title task                                                          *)
(***************************************************************************)
\* the titles stored for a chat id
TitlesOf(ch, chatID) == {c.Title : c \in {x \in ch.recs : x.ID = chatID}}

IsUpdateChat(x) == x.op = "UpdateChat"

\* the title task of request r takes a step
TitleRuns(r) == title[r].pc \in {"spawned", "divs", "publish"} /\ title'[r] # title[r]

\* C28: the title task of a created chat either fails to generate a title and
\* then calls nothing and leaves the title empty, or calls UpdateChat and, if
\* that fails, stops there with the title still empty, or stores the generated
\* title and only then, unless the chat list cannot be built, publishes it on
\* the chats topic; no other step changes a stored chat, and a title that is
\* set is never changed.
C28_TitleOnce ==
    [][/\ \A r \in Requests :
             LET chatID == title[r].chatID
                 new == SubSeq(tlog'[r], Len(tlog[r]) + 1, Len(tlog'[r]))
             IN  /\ (title[r].pc = "spawned" /\ title'[r].pc # "spawned") =>
                       /\ tlog[r] = <<>>
                       /\ \/ /\ new = <<>>
                             /\ title'[r].pc = "done"
                             /\ chats' = chats
                             /\ TitlesOf(chats', chatID) = {""}
                          \/ /\ Len(new) = 1
                             /\ IsUpdateChat(new[1]) /\ ~new[1].ok /\ new[1].chat = chatID
                             /\ title'[r].pc = "done"
                             /\ chats' = chats
                             /\ TitlesOf(chats', chatID) = {""}
                          \/ /\ Len(new) = 1
                             /\ IsUpdateChat(new[1]) /\ new[1].ok /\ new[1].chat = chatID
                             /\ title'[r].pc = "divs"
                             /\ TitlesOf(chats', chatID) \subseteq GeneratedTitles
                             /\ TitlesOf(chats', chatID) # {}
                 /\ (title[r].pc = "divs" /\ title'[r].pc # "divs") =>
                       /\ new = <<>>
                       /\ chats' = chats
                       /\ title'[r].pc \in {"publish", "done"}
                 /\ (title[r].pc = "publish" /\ title'[r].pc # "publish") =>
                       /\ Len(new) = 1
                       /\ new[1].op = "Publish"
                       /\ new[1].event.type = "chats"
                       /\ new[1].event.topic = chatsSSETopic
                       /\ Len(tlog[r]) = 1 /\ IsUpdateChat(tlog[r][1]) /\ tlog[r][1].ok
                       /\ chats' = chats
                       /\ title'[r].pc = "done"
                 /\ title'[r].pc = title[r].pc => tlog'[r] = tlog[r]
       /\ (\A r \in Requests : ~TitleRuns(r)) => chats.recs \subseteq chats'.recs
       /\ \A c \in chats.recs : c.Title # "" => c \in chats'.recs]_vars

\* one title task stored its title and published, the other failed to
\* generate one and left its chat untitled
C28_Witness ==
    /\ title["r1"].pc = "done" /\ Len(tlog["r1"]) = 2
    /\ title["r2"].pc = "done" /\ tlog["r2"] = <<>>
    /\ TitlesOf(chats, title["r1"].chatID) = GeneratedTitles
    /\ TitlesOf(chats, title["r2"].chatID) = {""}

(***************************************************************************)
(* The title task and the Engine task of a new chat                        *)
(***************************************************************************)
\* the Engine task of request r takes a step
EngineRuns(r) == eng[r].pc \in {"start", "stream", "publish", "tool", "close"} /\ eng'[r] # eng[r]

\* the messages the Engine of request r stored, oldest first
EngineStored(r) == SelectSeq(elog[r], LAMBDA x : IsUpdate(x) /\ x.ok)
\* the placeholder the handler of request r stored for the assistant
Placeholder(r) == Last(SelectSeq(hlog[r], LAMBDA x : IsAdd(x) /\ x.ok)).msg
TitleStored(r) == \E i \in DOMAIN tlog[r] : IsUpdateChat(tlog[r][i]) /\ tlog[r][i].ok

\* What the store holds for the chat of request r when the title task ran
\* to its end and then the Engine did, or the other way round: the chat
\* record with the title the title task stored, the user's message, and the
\* assistant message as the Engine last stored it.
SequentialStore(r) ==
    /\ TitlesOf(chats, req[r].chatID) =
          (IF TitleStored(r) THEN GeneratedTitles ELSE {""})
    /\ Len(StoreMessages(buckets, req[r].chatID)) = 2
    /\ {m \in buckets[req[r].chatID].recs : m.ID = req[r].aiMsgID} =
          {IF EngineStored(r) = <<>> THEN Placeholder(r) ELSE Last(EngineStored(r)).msg}

BothDone(r) == req[r].isNewChat /\ eng[r].pc = "done" /\ title[r].pc = "done"

\* C29: for a new chat every step of the title task leaves the message
\* buckets as they are and changes at most the chat's own record, every step
\* of the Engine task leaves the chat records as they are and changes at
\* most the assistant message of that chat, and once both tasks have ended,
\* in whatever order their steps were taken, the store holds what running
\* one task after the other leaves in it.
C29_DisjointWrites ==
    [][\A r \in Requests :
          req[r].isNewChat =>
             /\ TitleRuns(r) =>
                   /\ buckets' = buckets
                   /\ \A c \in chats.recs : c.ID # req[r].chatID => c \in chats'.recs
             /\ EngineRuns(r) =>
                   /\ chats' = chats
                   /\ \A m \in buckets[req[r].chatID].recs :
                         m.ID # req[r].aiMsgID => m \in buckets'[req[r].chatID].recs
             /\ BothDone(r)' => SequentialStore(r)']_vars

\* both tasks of a new chat have ended: the title task stored its title and
\* the Engine stored the assistant message at least twice
C29_Witness ==
    /\ BothDone("r1")
    /\ TitleStored("r1")
    /\ Len(EngineStored("r1")) >= 2

(***************************************************************************)
(* The Engine task and the request that started it                         *)
(***************************************************************************)
\* the handler of request r has returned: its request is closed and the
\* request's context is done
RequestClosed(r) == req[r].pc \in {"done", "aborted"}

CancellationError == PlainData("context canceled")

\* C30: once the request that started it is closed, the Engine task still
\* takes the items of the provider stream as they come: it never publishes
\* a cancellation error, a Text or CallTool it is handed is stored in the
\* assistant message when no call fails, and then, once the rendering is
\* published, it goes on with the stream or with the tool; with no failed
\* call it returns from a stream only when the provider ends the stream,
\* fails, or hands out a ToolResult.
C30_EngineOutlivesRequest ==
    [][\A r \in Requests :
          (RequestClosed(r) /\ EngineRuns(r)) =>
             LET new == NewEntries(elog[r], elog'[r])
             IN  /\ \A x \in new : x.op = "Publish" => x.event.data # CancellationError
                 /\ eng[r].pc = "stream" =>
                       /\ (faults' = faults /\ eng'[r].deltas > eng[r].deltas) =>
                             /\ eng'[r].pc = "publish"
                             /\ \E x \in new : IsUpdate(x) /\ x.ok /\ x.msg = eng'[r].aiMsg
                             /\ eng'[r].aiMsg \in buckets'[eng[r].chatID].recs
                       /\ (faults' = faults /\ eng'[r].pc \in {"close", "done"}) =>
                             eng'[r].exit \in {"end", "provider_error", "tool_result_content"}
                 /\ (eng[r].pc = "publish" /\ faults' = faults) =>
                       eng'[r].pc \in {"stream", "tool"}]_vars

\* the request was answered 200 and closed, and after that its Engine task
\* stored two deltas and returned at the end of the provider stream
C30_Witness ==
    \E r \in Requests :
        /\ RequestClosed(r) /\ req[r].status = 200
        /\ eng[r].pc = "done" /\ eng[r].exit = "end"
        /\ eng[r].deltas >= 2
        /\ Len(SelectSeq(elog[r], LAMBDA x : IsUpdate(x) /\ x.ok)) >= 2

(***************************************************************************)
(* The order of the Engine's writes                                        *)
(***************************************************************************)
IsPrefix(a, b) == Len(a) <= Len(b) /\ SubSeq(b, 1, Len(a)) = a

\* b is a with one or more contents appended
Appended(a, b) == Len(b) > Len(a) /\ IsPrefix(a, b)

\* b is a with the text of its last content, a Text, extended by one of texts
Extended(a, b, texts) ==
    /\ Len(a) = Len(b) /\ Len(a) >= 1
    /\ Last(a).Type = ContentTypeText
    /\ SubSeq(a, 1, Len(a) - 1) = SubSeq(b, 1, Len(b) - 1)
    /\ \E t \in texts : Last(b) = [Last(a) EXCEPT !.Text = @ \o t]

\* the texts the provider handed to the Engine task of r
YieldedTexts(r) ==
    {Yielded(elog[r])[i].Text :
        i \in {j \in 1..Len(Yielded(elog[r])) : Yielded(elog[r])[j].Type = ContentTypeText}}

\* C32: in an Engine task every UpdateMessage after the first writes the
\* contents of the write before it with the text of the last content, a
\* Text, extended by a delta, or with one or more contents appended; every
\* write is of the task's one message; the renderings the task publishes
\* are, in order, the renderings of its successful writes.
C32_MonotoneWrites ==
    \A r \in Requests :
        LET ws == SelectSeq(elog[r], IsUpdate)
            pubs == SelectSeq(elog[r], IsRendered)
        IN  /\ \A i \in 1..(Len(ws) - 1) :
                  /\ ws[i].ok
                  /\ ws[i + 1].msg.ID = ws[i].msg.ID
                  /\ \/ Extended(ws[i].msg.Contents, ws[i + 1].msg.Contents, YieldedTexts(r))
                     \/ Appended(ws[i].msg.Contents, ws[i + 1].msg.Contents)
            /\ Len(pubs) <= Len(ws)
            /\ \A i \in 1..Len(pubs) :
                  pubs[i].event.data = RenderContents(ws[i].msg.Contents)

(***************************************************************************)
(* One CallTool per stream                                                 *)
(***************************************************************************)
IsCallToolYield(x) == IsYield(x) /\ x.msg.Contents[1].Type = ContentTypeCallTool

\* the CallTool contents of a message
CallToolsIn(contents) == {i \in 1..Len(contents) : contents[i].Type = ContentTypeCallTool}

\* C33: once the Engine has taken a CallTool from a provider stream it takes
\* nothing more from that stream: its next content, if any, comes after the
\* next llm.Chat; so the working message holds at most one CallTool more
\* than it started with per stream the task has opened.
C33_BreakAfterCallTool ==
    \A r \in Requests :
        /\ \A i, j \in 1..Len(elog[r]) :
              (i < j /\ IsCallToolYield(elog[r][i]) /\ IsYield(elog[r][j])) =>
                  \E k \in (i + 1)..(j - 1) : IsChat(elog[r][k])
        /\ eng[r].rounds >= 1 =>
              Cardinality(CallToolsIn(eng[r].aiMsg.Contents))
                 <= Cardinality(CallToolsIn(Last(elog[r][1].history).Contents)) + eng[r].rounds

\* an Engine task took a CallTool from its first stream and, after the tool
\* step, a content from its second stream
C33_Witness ==
    \E r \in Requests : \E i, j \in 1..Len(elog[r]) :
        /\ i < j /\ IsCallToolYield(elog[r][i]) /\ IsYield(elog[r][j])
        /\ eng[r].rounds = 2

(***************************************************************************)
(* The working message of an Engine task                                   *)
(***************************************************************************)
\* C34: the working message of an Engine task is the assistant placeholder
\* that the handler of the same request added: it has the id the second
\* AddMessage of that request returned and the role assistant.
C34_OwnPlaceholder ==
    \A r \in Requests :
        eng[r].aiMsg # NoMessage =>
            /\ eng[r].aiMsg.ID = req[r].aiMsgID
            /\ eng[r].aiMsg.Role = RoleAssistant

(***************************************************************************)
(* The history an Engine task starts with                                  *)
(***************************************************************************)
\* C35: every Engine task is started with a history that is not empty, so
\* that taking its last message cannot fail, and no request brings the
\* process down.
C35_NeverEmptyHistory ==
    /\ \A r \in Requests : eng[r].pc # "idle" => eng[r].messages # <<>>
    /\ ~crashed

(***************************************************************************)
(* Tool invocations per stored CallTool                                    *)
(***************************************************************************)
\* The stored CallTool a tool-server call answers, as message id and
\* position: the call is followed in its log by the return of Main.callTool
\* and then by the message with the ToolResult appended, which continueChat
\* hands to UpdateMessage and the Engine to the next llm.Chat.
AnsweredCall(log, i) ==
    LET next == log[i + 2]
        m == IF IsChat(next) THEN Last(next.history) ELSE next.msg
    IN  <<m.ID, Len(m.Contents) - 1>>

\* the tool-server calls of all handlers and Engine tasks, each with the
\* stored CallTool it answers
Invocations ==
    UNION {{<<"handler", r, i, AnsweredCall(hlog[r], i)>> :
               i \in {j \in 1..Len(hlog[r]) : IsServerCall(hlog[r][j])}} : r \in Requests}
    \cup
    UNION {{<<"engine", r, i, AnsweredCall(elog[r], i)>> :
               i \in {j \in 1..Len(elog[r]) : IsServerCall(elog[r][j])}} : r \in Requests}

\* C36: no stored CallTool is answered by two calls of a tool server,
\* whether by the Engine task that received it, by continueChat of a later
\* request, or by both.
C36_AtMostOneInvocation ==
    \A x, y \in Invocations : x[4] = y[4] => x = y

(***************************************************************************)
(* The text cursor of the Engine loop                                      *)
(***************************************************************************)
\* C38: whenever the Engine is in a provider stream, where the next delta
\* may be a Text, contentIdx is the index of the last content of the working
\* message and that content is a Text.
C38_TextCursor ==
    \A r \in Requests :
        eng[r].pc = "stream" =>
            /\ eng[r].contentIdx = Len(eng[r].aiMsg.Contents) - 1
            /\ eng[r].aiMsg.Contents[eng[r].contentIdx + 1].Type = ContentTypeText

(***************************************************************************)
(* Yields after the consumer has stopped                                   *)
(***************************************************************************)
\* C37: no adapter calls yield again once a yield call has returned false, a
\* CallTool assembled by the end of the stream included: the items handed
\* out never number more than the consumer took.
C37_NoYieldAfterStop == ~Panicked(adp)

(***************************************************************************)
(* Termination of the Engine task                                          *)
(***************************************************************************)
EngineClosed(r) == eng[r].pc = "done" /\ elog[r] # <<>> /\ IsClose(Last(elog[r]))

\* C40: an Engine task that was started returns in the end and its last
\* call publishes closeMessage, given that it is scheduled, its streams are
\* finite and one of them ends or fails without a CallTool; the task itself
\* never ends the turn after a CallTool: from its tool step it always opens
\* another stream, and a CallTool it stored and published leads to the tool
\* step, however many streams it has opened.
C40_EngineTerminates ==
    /\ \A r \in {"r1"} : (eng[r].pc = "start") ~> EngineClosed(r)
    /\ [][\A r \in Requests :
             /\ (eng[r].pc = "tool" /\ eng'[r] # eng[r]) => eng'[r].pc = "stream"
             /\ (eng[r].pc = "publish" /\ eng[r].callTool /\ eng'[r].exit = ""
                    /\ eng'[r] # eng[r]) => eng'[r].pc = "tool"]_vars

\* the task returned at the end of its second stream, after a tool
\* round-trip, and closeMessage was its last call
C40_Witness ==
    /\ EngineClosed("r1")
    /\ eng["r1"].rounds = 2
    /\ eng["r1"].exit = "end"

(***************************************************************************)
(* closeMessage and the subscribers of a message                           *)
(***************************************************************************)
GotCloseMessage(c) ==
    \E i \in 1..Len(broker.sessions[c].events) :
        broker.sessions[c].events[i].type = "closeMessage"

\* the session of browser c follows the stream of message id
Follows(c, id) ==
    /\ broker.sessions[c].state = "open"
    /\ messageIDTopic(id) \in broker.sessions[c].topics

\* C39: a browser that follows the stream of a request's assistant message
\* has received closeMessage only if the Engine task of that request has
\* returned.
C39_CloseOnlyOwnStream ==
    \A c \in Clients : \A r \in Requests :
        (req[r].aiMsgID # NoID /\ Follows(c, req[r].aiMsgID) /\ GotCloseMessage(c))
            => EngineLeft(r)

\* C31: process shutdown cancels every provider stream in flight: once
\* Main.Shutdown has run (closeChat published, the SSE server shut down),
\* an Engine task that is consuming a provider stream is handed the
\* cancellation or the end of the stream, so it takes no further Text or
\* CallTool from it.
C31_ShutdownCancelsStreams ==
    [][\A r \in Requests :
          (broker.pc = "closed" /\ eng[r].pc = "stream" /\ EngineRuns(r)) =>
              eng'[r].deltas = eng[r].deltas]_vars

====
